---- MODULE Spec2Model ----
(***************************************************************************)
(* Model of the terrain harvester of l2j-interlude-toolkit:                *)
(*   scan_state.py   ScanProgress  (region registry, durable store)        *)
(*   scan_worker.py  ScanWorker    (_run, _connect, _scan_region)          *)
(*   l2d_parser.py   write_l2d                                             *)
(*   l2_client.py    login / select_server / full_connect_or_create        *)
(*                                                                         *)
(* Region keys "<rx>_<ry>" are numbered 1..NumKeys in the order            *)
(* sorted(self._regions.keys()) gives them.  Worker names are numbered     *)
(* 1..NumWorkers; the empty name "" is NoWorker.  time.time() is 1 (any    *)
(* timestamp > 0); the float 0.0 is 0.                                     *)
(***************************************************************************)
EXTENDS Integers, Sequences, FiniteSets, TLC

VARIABLES
    regions,      \* ScanProgress._regions : key -> RegionState (a dict)
    workers,      \* ScanProgress._workers : name -> WorkerState.status
    db_regions,   \* SQLite table regions  : key -> row
    scan_cells,   \* SQLite table scan_cells : <<key, cell_x, cell_y>> -> height
    files,        \* output directory : key -> the file "<rx>_<ry>.l2d"
    pc,           \* position of each worker thread in ScanWorker._run
    stop_event,   \* ScanWorker._stop_event
    cur_region,   \* the local `region` of _run (NoKey: none held)
    block_y,      \* the loop variable of _scan_region
    heights,      \* the local dict `heights` of _scan_region
    exc,          \* the exception `e` caught in _run ("" : none)
    hist,         \* history of each worker: last connect outcome, scan
                  \* failure since the last backoff, effects of the scan
    pending0,     \* the PENDING keys at the start of a contention run
    used,         \* how many events from outside the run has had
    sse,          \* ScanProgress._sse_subscribers, the queues and _event_log
    login_client, \* an L2LoginClient during login() and select_server()
    game_client,  \* an L2GameClient: handshake, self.crypt, message queues
    geo_row,      \* one scan_geo payload and what _scan_region stores of it
    editor        \* the geodata editor: the cached GeoRegion, the file, the
                  \* last request and its answer

vars == <<regions, workers, db_regions, scan_cells, files, pc, stop_event,
          cur_region, block_y, heights, exc, hist, pending0, used,
          sse, login_client, game_client, geo_row, editor>>

\* the variables the scan leaves alone
auxVars == <<pending0, sse, login_client, game_client, geo_row, editor>>

\* a component that takes no part in a run
Unused == "unused"

registryVars == <<regions, workers, db_regions, scan_cells>>
threadVars   == <<pc, stop_event, cur_region, block_y, heights, exc, hist>>

-----------------------------------------------------------------------------
(* Bounds of the model *)
NumWorkers == 2
NumKeys    == 2
NumCallers == 3
\* REGION_BLOCKS_Y and REGION_BLOCKS_X (256 in l2d_parser.py) scaled down
Rows == 2
Cols == 2
\* how many events from outside one run has: a failure (of a connection, an
\* exchange, a write), a reset from the dashboard, a restart of the process
MaxEvents == 1

Workers == 1..NumWorkers
Keys    == 1..NumKeys
Callers == 1..NumCallers
NoWorker == 0
NoKey    == 0

REGION_BLOCKS_Y == Rows
REGION_BLOCKS_X == Cols
REGION_BLOCKS   == REGION_BLOCKS_X * REGION_BLOCKS_Y

-----------------------------------------------------------------------------
(* scan_state.py : RegionStatus, WorkerStatus, RegionState *)
PENDING  == "pending"
SCANNING == "scanning"
COMPLETE == "complete"
ERROR    == "error"

W_IDLE       == "idle"
W_CONNECTING == "connecting"
W_SCANNING   == "scanning"
W_ERROR      == "error"
W_STOPPED    == "stopped"

RegionState(total) ==
    [status |-> PENDING, total_cells |-> total, scanned_cells |-> 0,
     assigned_worker |-> NoWorker, started_at |-> 0, completed_at |-> 0,
     error |-> ""]

EmptyMap == [x \in {} |-> 0]

\* a persist that never reaches the table
persist_skipped(db, k, r) == db

\* _persist_region: INSERT OR REPLACE of the region's row
persist_region(db, k, r) == (k :> r) @@ db

-----------------------------------------------------------------------------
(* ScanProgress: registry operations, each one critical section *)

\* an add_region that registers the key again
add_region_again(k, total) ==
    /\ regions' = (k :> RegionState(total)) @@ regions
    /\ db_regions' = persist_region(db_regions, k, RegionState(total))

\* add_region: a key already tracked is left alone
add_region(k, total) ==
    IF k \in DOMAIN regions
    THEN UNCHANGED <<regions, db_regions>>
    ELSE /\ regions' = (k :> RegionState(total)) @@ regions
         /\ db_regions' = persist_region(db_regions, k, RegionState(total))

\* the first PENDING key of sorted(self._regions.keys()), or NoKey
first_pending(regs) ==
    IF \E k \in DOMAIN regs : regs[k].status = PENDING
    THEN CHOOSE k \in DOMAIN regs :
            /\ regs[k].status = PENDING
            /\ \A j \in DOMAIN regs : regs[j].status = PENDING => k <= j
    ELSE NoKey

\* a claim that names the caller but leaves the status as it was
claimed_unmarked(r, w) == [r EXCEPT !.assigned_worker = w, !.started_at = 1]

\* the region get_next_region hands out, as it is written back
claimed(r, w) ==
    [r EXCEPT !.status = SCANNING, !.assigned_worker = w, !.started_at = 1]

\* get_next_region(worker_name) returning k (NoKey for None)
get_next_region(w, k) ==
    /\ k = first_pending(regions)
    /\ IF k = NoKey
       THEN UNCHANGED <<regions, db_regions>>
       ELSE /\ regions' = [regions EXCEPT ![k] = claimed(@, w)]
            /\ db_regions' = persist_region(db_regions, k, claimed(regions[k], w))

\* a release that never clears the holder
released_keeps_worker(r, status, error) ==
    LET r1 == [r EXCEPT !.status = status, !.error = error]
    IN  IF status = COMPLETE THEN [r1 EXCEPT !.completed_at = 1] ELSE r1

\* a release to PENDING that leaves started_at as the claim set it
released_keeps_started(r, status, error) ==
    LET r1 == [r EXCEPT !.status = status, !.error = error]
    IN  IF status = COMPLETE THEN [r1 EXCEPT !.completed_at = 1]
        ELSE IF status = PENDING
             THEN [r1 EXCEPT !.assigned_worker = NoWorker]
             ELSE r1

\* the region release_region writes back
released(r, status, error) ==
    LET r1 == [r EXCEPT !.status = status, !.error = error]
    IN  IF status = COMPLETE THEN [r1 EXCEPT !.completed_at = 1]
        ELSE IF status = PENDING
             THEN [r1 EXCEPT !.assigned_worker = NoWorker, !.started_at = 0]
             ELSE r1

\* release_region(region_key, status, error): an unknown key changes nothing
release_region(k, status, error) ==
    IF k \notin DOMAIN regions
    THEN UNCHANGED <<regions, db_regions>>
    ELSE /\ regions' = [regions EXCEPT ![k] = released(@, status, error)]
         /\ db_regions' = persist_region(db_regions, k,
                                         released(regions[k], status, error))

\* the rows record_cells_batch upserts for a batch (a dict of heights)
batch_rows(k, hs) ==
    [c \in {<<k, p[1], p[2]>> : p \in DOMAIN hs} |-> hs[<<c[2], c[3]>>]]

\* record_cells_batch(region_key, cells): the cells are stored whether or not
\* the key is tracked; scanned_cells is updated only when it is
record_cells_batch(k, hs) ==
    /\ scan_cells' = batch_rows(k, hs) @@ scan_cells
    /\ IF k \in DOMAIN regions
       THEN /\ regions' = [regions EXCEPT
                             ![k].scanned_cells = @ + Cardinality(DOMAIN hs)]
            /\ db_regions' =
                 IF k \in DOMAIN db_regions
                 THEN [db_regions EXCEPT ![k].scanned_cells =
                          regions[k].scanned_cells + Cardinality(DOMAIN hs)]
                 ELSE db_regions
       ELSE UNCHANGED <<regions, db_regions>>

\* update_worker(name, status=...): an unknown name changes nothing
update_worker(ws, w, status) ==
    IF w \in DOMAIN ws THEN [ws EXCEPT ![w] = status] ELSE ws

\* register_worker(name)
register_worker(ws, w) == (w :> W_IDLE) @@ ws

-----------------------------------------------------------------------------
(* The game server's terrain and the scan_geo exchange *)

\* the height the server's GeoEngine holds for block (bx, by) of region k
Terrain(k, bx, by) == k * 100 + bx * 10 + by

\* the outcomes of one scan_geo exchange (send_admin_command, then
\* geodata_queue.get(timeout=10.0) and the checks of the message)
TIMEOUT == "timeout"    \* queue.Empty: no response within the wait
FORMAT  == "format"     \* len(parts) != 5 or parts[0] != "GEODATA"
SIZE    == "size"       \* len(raw) != 256 * 3
WRITE   == "write"      \* write_l2d raised (OSError)
ROW_OK  == "ok"
RowOutcomes == {ROW_OK, TIMEOUT, FORMAT, SIZE}

\* heights[(bx, block_y)] = height for bx in range(REGION_BLOCKS_X)
store_row(hs, k, by) ==
    [p \in {<<bx, by>> : bx \in 0..(REGION_BLOCKS_X - 1)} |->
        Terrain(k, p[1], p[2])] @@ hs

\* heights.get((bx, by), 0)
height_of(hs, bx, by) == IF <<bx, by>> \in DOMAIN hs THEN hs[<<bx, by>>] ELSE 0

\* _build_region: for bx: for by: blocks.append(BlockFlat(height=h)); the
\* block appended i-th (from 1) is block (bx, by) with i - 1 = bx*ROWS + by
build_region(hs) ==
    [i \in 1..REGION_BLOCKS |->
        height_of(hs, (i - 1) \div REGION_BLOCKS_Y, (i - 1) % REGION_BLOCKS_Y)]

\* the file at a path: absent, or its content so far (a run of Flat blocks)
NoFile == [exists |-> FALSE, blocks |-> <<>>]
FileOf(bs) == [exists |-> TRUE, blocks |-> bs]

\* write_l2d is filepath.write_bytes(bytes(out)): the file at the final path
\* is opened for writing, which truncates it, and then the bytes are written
write_open(fs, k) == [fs EXCEPT ![k] = FileOf(<<>>)]
write_data(fs, k, bs, n) == [fs EXCEPT ![k] = FileOf(SubSeq(bs, 1, n))]

-----------------------------------------------------------------------------
(* l2_client.py : the replies that decide login() and select_server() *)
OP_LOGIN_FAIL == 1      \* LoginFail
OP_LOGIN_OK   == 3      \* LoginOk
OP_PLAY_FAIL  == 6      \* PlayFail
OP_PLAY_OK    == 7      \* PlayOk

\* the opcodes the server may answer with at each step; the third one is an
\* opcode the step does not expect
LoginReplies == {OP_LOGIN_OK, OP_LOGIN_FAIL, OP_PLAY_OK}
PlayReplies  == {OP_PLAY_OK, OP_PLAY_FAIL, OP_LOGIN_OK}

\* a check that lets every reply but LoginFail pass
login_lenient(reply) == reply # OP_LOGIN_FAIL

\* L2LoginClient.login at its RequestAuthLogin reply
login(reply) == reply # OP_LOGIN_FAIL /\ reply = OP_LOGIN_OK

\* L2LoginClient.select_server
select_server(reply) == reply # OP_PLAY_FAIL /\ reply = OP_PLAY_OK

\* full_connect_or_create returns a client (TRUE) or None (FALSE)
full_connect_or_create(lr, pr, game_ok) ==
    IF ~login(lr) THEN FALSE
    ELSE IF ~select_server(pr) THEN FALSE
    ELSE game_ok

\* what ended the connection attempt, for the history
connect_outcome(lr, pr, game_ok) ==
    IF lr = OP_LOGIN_FAIL THEN "LoginFail"
    ELSE IF ~login(lr) THEN "other"
    ELSE IF pr = OP_PLAY_FAIL THEN "PlayFail"
    ELSE IF ~select_server(pr) THEN "other"
    ELSE IF game_ok THEN "ok" ELSE "other"

Rejected == {"LoginFail", "PlayFail"}

\* the budget of events from outside
CanDisturb == used < MaxEvents
Disturbed == used + 1

NoHist == [connect |-> "none", scan_failed |-> FALSE,
           wrote |-> FALSE, recorded |-> FALSE]

-----------------------------------------------------------------------------
(* ScanWorker._run, one action per step between two registry calls *)

\* ScanManager.add_worker -> ScanWorker.start(): the thread enters _run and
\* registers itself
Start(w) ==
    /\ pc[w] = "new"
    /\ stop_event' = [stop_event EXCEPT ![w] = FALSE]
    /\ workers' = register_worker(workers, w)
    /\ pc' = [pc EXCEPT ![w] = "loop"]
    /\ hist' = [hist EXCEPT ![w] = NoHist]
    /\ UNCHANGED <<regions, db_regions, scan_cells, files, cur_region,
                   block_y, heights, exc, auxVars, used>>

\* ScanWorker.stop()
Stop(w) ==
    /\ pc[w] \notin {"new", "done"}
    /\ ~stop_event[w]
    /\ stop_event' = [stop_event EXCEPT ![w] = TRUE]
    /\ UNCHANGED <<regions, workers, db_regions, scan_cells, files, pc,
                   cur_region, block_y, heights, exc, hist, auxVars, used>>

\* while not self._stop_event.is_set(): update_worker(status=CONNECTING);
\* when the event is set the loop ends: update_worker(status=STOPPED)
LoopCheck(w) ==
    /\ pc[w] = "loop"
    /\ IF stop_event[w]
       THEN /\ pc' = [pc EXCEPT ![w] = "done"]
            /\ workers' = update_worker(workers, w, W_STOPPED)
            /\ hist' = [hist EXCEPT ![w] = NoHist]
       ELSE /\ pc' = [pc EXCEPT ![w] = "connecting"]
            /\ workers' = update_worker(workers, w, W_CONNECTING)
            /\ UNCHANGED hist
    /\ UNCHANGED <<regions, db_regions, scan_cells, files, stop_event,
                   cur_region, block_y, heights, exc, auxVars, used>>

\* a failed connection that ends the thread instead of backing off
connect_failed_stops(w, outcome) ==
    /\ workers' = update_worker(workers, w, W_ERROR)
    /\ pc' = [pc EXCEPT ![w] = "done"]
    /\ hist' = [hist EXCEPT ![w].connect = outcome, ![w].scan_failed = FALSE]

\* if not self._connect(): update_worker(status=ERROR); "retrying in 5s"
connect_failed(w, outcome) ==
    /\ workers' = update_worker(workers, w, W_ERROR)
    /\ pc' = [pc EXCEPT ![w] = "backoff"]
    /\ hist' = [hist EXCEPT ![w].connect = outcome, ![w].scan_failed = FALSE]

\* self._connect() and what _run does with its result
Connect(w) ==
    /\ pc[w] = "connecting"
    /\ \E lr \in LoginReplies, pr \in PlayReplies, game_ok \in BOOLEAN :
         IF full_connect_or_create(lr, pr, game_ok)
         THEN /\ workers' = update_worker(workers, w, W_SCANNING)
              /\ pc' = [pc EXCEPT ![w] = "claim"]
              /\ hist' = [hist EXCEPT ![w].connect = "ok",
                                      ![w].scan_failed = FALSE]
              /\ UNCHANGED used
         ELSE /\ CanDisturb
              /\ used' = Disturbed
              /\ connect_failed(w, connect_outcome(lr, pr, game_ok))
    /\ UNCHANGED <<regions, db_regions, scan_cells, files, stop_event,
                   cur_region, block_y, heights, exc, auxVars>>

\* self._stop_event.wait(5.0); continue
Backoff(w) ==
    /\ pc[w] = "backoff"
    /\ pc' = [pc EXCEPT ![w] = "loop"]
    /\ UNCHANGED <<regions, workers, db_regions, scan_cells, files, stop_event,
                   cur_region, block_y, heights, exc, hist, auxVars, used>>

\* inner while: region = get_next_region(self.name); if not region: break
\* (then self._disconnect() and back to the loop test);
\* update_worker(current_region=..., status=SCANNING); _scan_region starts
Claim(w) ==
    /\ pc[w] = "claim"
    /\ IF stop_event[w]
       THEN /\ pc' = [pc EXCEPT ![w] = "loop"]
            /\ UNCHANGED <<regions, db_regions, workers, cur_region, block_y,
                           heights>>
       ELSE \E k \in Keys \cup {NoKey} :
              /\ get_next_region(w, k)
              /\ IF k = NoKey
                 THEN /\ pc' = [pc EXCEPT ![w] = "loop"]
                      /\ UNCHANGED <<workers, cur_region, block_y, heights>>
                 ELSE /\ pc' = [pc EXCEPT ![w] = "scan"]
                      /\ workers' = update_worker(workers, w, W_SCANNING)
                      /\ cur_region' = [cur_region EXCEPT ![w] = k]
                      /\ block_y' = [block_y EXCEPT ![w] = 0]
                      /\ heights' = [heights EXCEPT ![w] = EmptyMap]
    /\ UNCHANGED <<scan_cells, files, stop_event, exc, hist, auxVars, used>>

\* the locals of _scan_region are gone when it returns or raises
scan_ended(w) ==
    /\ cur_region' = [cur_region EXCEPT ![w] = NoKey]
    /\ block_y' = [block_y EXCEPT ![w] = 0]
    /\ heights' = [heights EXCEPT ![w] = EmptyMap]

\* raise RuntimeError(...) / OSError: the exception leaves _scan_region
scan_raises(w, e) ==
    /\ exc' = [exc EXCEPT ![w] = e]
    /\ pc' = [pc EXCEPT ![w] = "fail"]
    /\ hist' = [hist EXCEPT ![w].scan_failed = TRUE]

\* for block_y in range(REGION_BLOCKS_Y): if stop: release_region(PENDING);
\* return.  Otherwise send "scan_geo rx ry block_y",
\* geodata_queue.get(timeout=10.0), the checks of the message, the row stored
ScanRow(w) ==
    /\ pc[w] = "scan"
    /\ IF stop_event[w]
       THEN /\ release_region(cur_region[w], PENDING, "")
            /\ scan_ended(w)
            /\ pc' = [pc EXCEPT ![w] = "claim"]
            /\ UNCHANGED <<exc, hist, used>>
       ELSE /\ \E o \in RowOutcomes :
                 IF o = ROW_OK
                 THEN /\ heights' = [heights EXCEPT ![w] =
                                  store_row(@, cur_region[w], block_y[w])]
                      /\ block_y' = [block_y EXCEPT ![w] = @ + 1]
                      /\ pc' = [pc EXCEPT ![w] =
                                  IF block_y[w] + 1 = REGION_BLOCKS_Y
                                  THEN "build" ELSE "scan"]
                      /\ UNCHANGED <<exc, hist, used>>
                 ELSE /\ CanDisturb
                      /\ used' = Disturbed
                      /\ scan_raises(w, o)
                      /\ UNCHANGED <<heights, block_y>>
            /\ UNCHANGED <<regions, db_regions, cur_region>>
    /\ UNCHANGED <<workers, scan_cells, files, stop_event, auxVars>>

\* write_l2d(geo_region, output_path): the file is opened (truncated)
WriteOpen(w) ==
    /\ pc[w] = "build"
    /\ \/ /\ files' = write_open(files, cur_region[w])
          /\ pc' = [pc EXCEPT ![w] = "writing"]
          /\ hist' = [hist EXCEPT ![w].wrote = TRUE]
          /\ UNCHANGED <<exc, used>>
       \/ /\ CanDisturb
          /\ used' = Disturbed
          /\ scan_raises(w, WRITE)
          /\ UNCHANGED files
    /\ UNCHANGED <<regions, workers, db_regions, scan_cells, stop_event,
                   cur_region, block_y, heights, auxVars>>

\* write_l2d: the bytes are written; a write that fails leaves what it wrote
WriteData(w) ==
    /\ pc[w] = "writing"
    /\ \E n \in 0..REGION_BLOCKS :
         /\ files' = write_data(files, cur_region[w], build_region(heights[w]), n)
         /\ IF n = REGION_BLOCKS
            THEN pc' = [pc EXCEPT ![w] = "record"] /\ UNCHANGED <<exc, hist, used>>
            ELSE CanDisturb /\ used' = Disturbed /\ scan_raises(w, WRITE)
    /\ UNCHANGED <<regions, workers, db_regions, scan_cells, stop_event,
                   cur_region, block_y, heights, auxVars>>

\* self.progress.record_cells_batch(region.key, batch)
Record(w) ==
    /\ pc[w] = "record"
    /\ record_cells_batch(cur_region[w], heights[w])
    /\ pc' = [pc EXCEPT ![w] = "complete"]
    /\ hist' = [hist EXCEPT ![w].recorded = TRUE]
    /\ UNCHANGED <<workers, files, stop_event, cur_region, block_y, heights,
                   exc, auxVars, used>>

\* self.progress.release_region(region.key, RegionStatus.COMPLETE)
Complete(w) ==
    /\ pc[w] = "complete"
    /\ release_region(cur_region[w], COMPLETE, "")
    /\ scan_ended(w)
    /\ pc' = [pc EXCEPT ![w] = "claim"]
    /\ hist' = [hist EXCEPT ![w].wrote = FALSE, ![w].recorded = FALSE]
    /\ UNCHANGED <<workers, scan_cells, files, stop_event, exc, auxVars, used>>

\* except Exception as e: release_region(region.key, PENDING, str(e))
release_failed(w) == release_region(cur_region[w], PENDING, exc[w])

\* update_worker(errors=...); break; self._disconnect(); back to the loop test
after_failed_scan(w) == pc' = [pc EXCEPT ![w] = "loop"]

ReleaseFail(w) ==
    /\ pc[w] = "fail"
    /\ release_failed(w)
    /\ scan_ended(w)
    /\ after_failed_scan(w)
    /\ exc' = [exc EXCEPT ![w] = ""]
    /\ hist' = [hist EXCEPT ![w].wrote = FALSE, ![w].recorded = FALSE]
    /\ UNCHANGED <<workers, scan_cells, files, stop_event, auxVars, used>>

-----------------------------------------------------------------------------
(* Registry operations called from outside the workers *)

\* ScanManager.discover_regions: one add_region call
AddRegion(k) ==
    /\ add_region(k, REGION_BLOCKS)
    /\ UNCHANGED <<workers, scan_cells, files, auxVars, used>>
    /\ UNCHANGED threadVars

\* ScanProgress.reset (POST /api/scan/reset)
Reset ==
    /\ regions' = EmptyMap
    /\ workers' = EmptyMap
    /\ db_regions' = EmptyMap
    /\ scan_cells' = EmptyMap
    /\ CanDisturb
    /\ used' = Disturbed
    /\ UNCHANGED <<files, auxVars>>
    /\ UNCHANGED threadVars

\* the threads of a fresh process: none started, nothing held
NewThreads(p, se, cr, b, hs, e, h) ==
    /\ p = [w \in Workers |-> "new"]
    /\ se = [w \in Workers |-> FALSE]
    /\ cr = [w \in Workers |-> NoKey]
    /\ b = [w \in Workers |-> 0]
    /\ hs = [w \in Workers |-> EmptyMap]
    /\ e = [w \in Workers |-> ""]
    /\ h = [w \in Workers |-> NoHist]

\* the process dies and is started again: ScanProgress.__init__ runs
\* _load_from_db, which rehydrates the regions as they were persisted
Restart ==
    /\ \E w \in Workers : pc[w] # "new"
    /\ CanDisturb
    /\ used' = Disturbed
    /\ regions' = db_regions
    /\ workers' = EmptyMap
    /\ NewThreads(pc', stop_event', cur_region', block_y', heights', exc', hist')
    /\ UNCHANGED <<db_regions, scan_cells, files, auxVars>>

\* ScanProgress.__init__ on an empty store, no worker constructed yet
ScanInit ==
    /\ regions = EmptyMap
    /\ workers = EmptyMap
    /\ db_regions = EmptyMap
    /\ scan_cells = EmptyMap
    /\ files = [k \in Keys |-> NoFile]
    /\ NewThreads(pc, stop_event, cur_region, block_y, heights, exc, hist)
    /\ pending0 = {}
    /\ used = 0

\* the variables of the scan, for the runs that leave them alone
scanVars == <<regions, workers, db_regions, scan_cells, files, pc, stop_event,
              cur_region, block_y, heights, exc, hist, pending0, used>>

Init ==
    /\ ScanInit
    /\ sse = Unused
    /\ login_client = Unused
    /\ game_client = Unused
    /\ geo_row = Unused
    /\ editor = Unused

Next ==
    \/ \E w \in Workers :
         \/ Start(w) \/ Stop(w) \/ LoopCheck(w) \/ Connect(w) \/ Backoff(w)
         \/ Claim(w) \/ ScanRow(w) \/ WriteOpen(w) \/ WriteData(w)
         \/ Record(w) \/ Complete(w) \/ ReleaseFail(w)
    \/ \E k \in Keys : AddRegion(k)
    \/ Reset
    \/ Restart

Spec == Init /\ [][Next]_vars

-----------------------------------------------------------------------------
(* Contention on get_next_region: N callers, each one call, against a      *)
(* registry that holds M PENDING regions among others                      *)

\* a worker that is not among the callers and holds the SCANNING regions
Holder == NumCallers + 1

\* the records a registry can hold for a key before the calls
RegionStates ==
    LET fresh == RegionState(REGION_BLOCKS)
    IN  {fresh,
         claimed(fresh, Holder),
         released(claimed(fresh, Holder), COMPLETE, ""),
         released(claimed(fresh, Holder), PENDING, TIMEOUT)}

Registries == UNION {[D -> RegionStates] : D \in SUBSET Keys}

InitAtomic ==
    /\ regions \in Registries
    /\ db_regions = regions
    /\ workers = EmptyMap
    /\ scan_cells = EmptyMap
    /\ files = [k \in Keys |-> NoFile]
    /\ pc \in {[c \in C |-> "call"] : C \in (SUBSET Callers) \ {{}}}
    /\ cur_region = [c \in DOMAIN pc |-> NoKey]
    /\ stop_event = [c \in DOMAIN pc |-> FALSE]
    /\ block_y = [c \in DOMAIN pc |-> 0]
    /\ heights = [c \in DOMAIN pc |-> EmptyMap]
    /\ exc = [c \in DOMAIN pc |-> ""]
    /\ hist = [c \in DOMAIN pc |-> NoHist]
    /\ pending0 = {k \in DOMAIN regions : regions[k].status = PENDING}
    /\ used = 0
    /\ sse = Unused
    /\ login_client = Unused
    /\ game_client = Unused
    /\ geo_row = Unused
    /\ editor = Unused

\* region = self.progress.get_next_region(self.name), one critical section
Call(c) ==
    /\ c \in DOMAIN pc
    /\ pc[c] = "call"
    /\ \E k \in Keys \cup {NoKey} :
         /\ get_next_region(c, k)
         /\ cur_region' = [cur_region EXCEPT ![c] = k]
    /\ pc' = [pc EXCEPT ![c] = "returned"]
    /\ UNCHANGED <<workers, scan_cells, files, stop_event, block_y, heights,
                   exc, hist, auxVars, used>>

NextAtomic == \E c \in Callers : Call(c)

SpecAtomic == InitAtomic /\ [][NextAtomic]_vars

-----------------------------------------------------------------------------
(* ScanProgress: server-sent events.  sse holds _sse_subscribers (a list of *)
(* queues, here their identities), the content of each queue, _event_log,  *)
(* and as history: every event emitted, every event placed in each queue,  *)
(* how many events had been emitted when each queue subscribed, and the    *)
(* status transitions of the regions                                       *)

\* queue.Queue(maxsize=256) and the 500 events _event_log keeps, scaled down
QueueCap == 2
LogCap   == 3
\* how many queues subscribe and how many events are emitted in one run
MaxSubs  == 2
MaxEmit  == 3

Subs == 1..MaxSubs

\* the event dict of _push_event; the timestamp numbers the emissions
Event(type, region, status) ==
    [type |-> type, region |-> region, status |-> status,
     timestamp |-> Len(sse.emitted) + 1]

\* self._event_log = self._event_log[-500:]
last_events(log) ==
    IF Len(log) > LogCap THEN SubSeq(log, Len(log) - LogCap + 1, Len(log))
    ELSE log

\* a put that goes to the head of the queue
put_front(q, ev) == <<ev>> \o q

\* q.put_nowait(event) on a queue with room
put_nowait(q, ev) == Append(q, ev)

\* the queues that raise queue.Full
dead_queues(e) == {q \in DOMAIN e.queues : Len(e.queues[q]) >= QueueCap}

\* a removal that forgets the dead queues
keep_dead(subs, dead) == subs

\* for q in dead: self._sse_subscribers.remove(q)
remove_dead(subs, dead) == SelectSeq(subs, LAMBDA q : q \notin dead)

\* the subscribers as a set
SubSet(e) == {e.subscribers[i] : i \in 1..Len(e.subscribers)}

\* _push_event(event_type, data), called under the lock
push_event(e, ev) ==
    LET live == SubSet(e) \ dead_queues(e)
    IN  [e EXCEPT
           !.event_log = last_events(Append(@, ev)),
           !.queues = [q \in DOMAIN @ |->
                          IF q \in live THEN put_nowait(@[q], ev) ELSE @[q]],
           !.subscribers = remove_dead(@, dead_queues(e) \cap SubSet(e)),
           !.emitted = Append(@, ev),
           !.placed = [q \in DOMAIN @ |->
                          IF q \in live THEN Append(@[q], ev) ELSE @[q]]]

\* the registry and the threads of a run that only emits events
eventVars == <<workers, scan_cells, files, pc, stop_event, cur_region, block_y,
               heights, exc, hist, pending0, used, login_client, game_client,
               geo_row, editor>>

InitEvents ==
    /\ ScanInit
    /\ sse = [subscribers |-> <<>>, queues |-> EmptyMap, event_log |-> <<>>,
              emitted |-> <<>>, placed |-> EmptyMap, since |-> EmptyMap,
              transitions |-> <<>>]
    /\ login_client = Unused
    /\ game_client = Unused
    /\ geo_row = Unused
    /\ editor = Unused

CanEmit == Len(sse.emitted) < MaxEmit

\* discover_regions: add_region emits no event
EvAddRegion(k) ==
    /\ k \notin DOMAIN regions
    /\ add_region(k, REGION_BLOCKS)
    /\ UNCHANGED <<sse, eventVars>>

\* subscribe_sse: a new queue is appended to the list
Subscribe(q) ==
    /\ q \notin DOMAIN sse.queues
    /\ \A j \in Subs : j < q => j \in DOMAIN sse.queues
    /\ sse' = [sse EXCEPT
                 !.subscribers = Append(@, q),
                 !.queues = (q :> <<>>) @@ @,
                 !.placed = (q :> <<>>) @@ @,
                 !.since = (q :> Len(sse.emitted)) @@ @]
    /\ UNCHANGED <<regions, db_regions, eventVars>>

\* unsubscribe_sse(q): the queue leaves the list if it is in it
Unsubscribe(q) ==
    /\ q \in SubSet(sse)
    /\ sse' = [sse EXCEPT !.subscribers = SelectSeq(@, LAMBDA x : x # q)]
    /\ UNCHANGED <<regions, db_regions, eventVars>>

\* the observer's generator: event = q.get(timeout=30)
Get(q) ==
    /\ q \in DOMAIN sse.queues
    /\ sse.queues[q] # <<>>
    /\ sse' = [sse EXCEPT !.queues[q] = Tail(@)]
    /\ UNCHANGED <<regions, db_regions, eventVars>>

\* push_log(message, level)
PushLog ==
    /\ CanEmit
    /\ sse' = push_event(sse, Event("log", NoKey, ""))
    /\ UNCHANGED <<regions, db_regions, eventVars>>

\* get_next_region: the claim and its region_update in one critical section
EvClaim(w) ==
    /\ CanEmit
    /\ \E k \in Keys :
         /\ get_next_region(w, k)
         /\ sse' = [push_event(sse, Event("region_update", k, SCANNING))
                       EXCEPT !.transitions = Append(@, <<k, SCANNING>>)]
    /\ UNCHANGED eventVars

\* release_region: the release and its region_update in one critical section
EvRelease(k, status) ==
    /\ CanEmit
    /\ k \in DOMAIN regions
    /\ regions[k].status = SCANNING
    /\ release_region(k, status, "")
    /\ sse' = [push_event(sse, Event("region_update", k, status))
                  EXCEPT !.transitions = Append(@, <<k, status>>)]
    /\ UNCHANGED eventVars

NextEvents ==
    \/ \E k \in Keys : EvAddRegion(k)
    \/ \E q \in Subs : Subscribe(q) \/ Unsubscribe(q) \/ Get(q)
    \/ PushLog
    \/ \E w \in Workers : EvClaim(w)
    \/ \E k \in Keys, status \in {PENDING, COMPLETE} : EvRelease(k, status)

SpecEvents == InitEvents /\ [][NextEvents]_vars

-----------------------------------------------------------------------------
(* L2LoginClient: the login handshake as full_connect_or_create drives it.  *)
(* login_client holds the state the client waits in, the packets it sent,   *)
(* the replies it got, its socket, and the play keys it yields              *)

\* opcodes of the login server's replies and of the client's requests
OP_INIT         == 0    \* Init
OP_GG_AUTH      == 11   \* GGAuth
OP_SERVER_LIST  == 4    \* ServerList
REQ_AUTH_GG     == 7    \* AuthGameGuard
REQ_AUTH_LOGIN  == 0    \* RequestAuthLogin
REQ_SERVER_LIST == 5    \* RequestServerList
REQ_SERVER_LOGIN == 2   \* RequestServerLogin

\* session ids and session keys are drawn from 1..MaxKey; a ServerList names
\* up to MaxServers servers
MaxKey     == 3
MaxServers == 1

LoginOps == {OP_INIT, OP_GG_AUTH, OP_LOGIN_OK, OP_SERVER_LIST, OP_PLAY_OK,
             OP_LOGIN_FAIL, OP_PLAY_FAIL}

\* a reply: its opcode and the two fields the client reads from it (Init:
\* session id; LoginOk, PlayOk: the two keys; ServerList: server count)
Reply(op, a, b) == [op |-> op, a |-> a, b |-> b]

\* the replies the server may send while the client waits in a state
RepliesIn(state) ==
    {Reply(op, 0, 0) : op \in LoginOps \ {OP_INIT, OP_LOGIN_OK, OP_PLAY_OK,
                                         OP_SERVER_LIST}}
    \cup {Reply(OP_SERVER_LIST, n, 0) : n \in 0..MaxServers}
    \cup (IF state = "Init"
          THEN {Reply(OP_INIT, sid, 0) : sid \in 1..MaxKey}
          ELSE {Reply(OP_INIT, 1, 0)})
    \cup (IF state = "LoginOk"
          THEN {Reply(OP_LOGIN_OK, k, MaxKey + 1 - k) : k \in 1..MaxKey}
          ELSE {Reply(OP_LOGIN_OK, 1, 1)})
    \cup (IF state = "PlayOk"
          THEN {Reply(OP_PLAY_OK, k, k) : k \in 1..MaxKey}
          ELSE {Reply(OP_PLAY_OK, 1, 1)})

\* return False in login() / select_server(), then login.close(); return None
login_aborts(lc, r) ==
    [lc EXCEPT !.got = Append(@, r), !.state = "failed", !.sock = "closed"]

\* the reply was the awaited one: the next request goes out
login_sends(lc, r, pkt, state) ==
    [lc EXCEPT !.got = Append(@, r), !.sent = Append(@, pkt), !.state = state]

\* one receive of login() / select_server() and what follows it
login_step(lc, r) ==
    CASE lc.state = "Init" ->
           IF r.op # OP_INIT THEN login_aborts(lc, r)
           ELSE [login_sends(lc, r, <<REQ_AUTH_GG, r.a, 0>>, "GGAuth")
                    EXCEPT !.session_id = r.a]
      [] lc.state = "GGAuth" ->
           IF r.op # OP_GG_AUTH THEN login_aborts(lc, r)
           ELSE login_sends(lc, r, <<REQ_AUTH_LOGIN, 0, 0>>, "LoginOk")
      [] lc.state = "LoginOk" ->
           IF ~login(r.op) THEN login_aborts(lc, r)
           ELSE [login_sends(lc, r, <<REQ_SERVER_LIST, r.a, r.b>>, "ServerList")
                    EXCEPT !.login_ok1 = r.a, !.login_ok2 = r.b]
      [] lc.state = "ServerList" ->
           IF r.op # OP_SERVER_LIST THEN login_aborts(lc, r)
           ELSE IF r.a = 0 THEN login_aborts(lc, r)
           ELSE login_sends(lc, r, <<REQ_SERVER_LOGIN, lc.login_ok1, lc.login_ok2>>,
                            "PlayOk")
      [] lc.state = "PlayOk" ->
           IF ~select_server(r.op) THEN login_aborts(lc, r)
           ELSE [lc EXCEPT !.got = Append(@, r), !.state = "done",
                           !.play_ok1 = r.a, !.play_ok2 = r.b,
                           !.sock = "closed"]

\* L2LoginClient.__init__
NewLoginClient ==
    [state |-> "new", sock |-> "none", sent |-> <<>>, got |-> <<>>,
     session_id |-> 0, login_ok1 |-> 0, login_ok2 |-> 0,
     play_ok1 |-> 0, play_ok2 |-> 0]

loginVars == <<scanVars, sse, game_client, geo_row, editor>>

InitLogin ==
    /\ ScanInit
    /\ login_client = NewLoginClient
    /\ sse = Unused
    /\ game_client = Unused
    /\ geo_row = Unused
    /\ editor = Unused

\* self.connect()
LoginConnect ==
    /\ login_client.state = "new"
    /\ login_client' = [login_client EXCEPT !.state = "Init", !.sock = "open"]
    /\ UNCHANGED loginVars

\* raw = self.recv_packet(); the check of raw[0]; the next send_packet
LoginRecv ==
    /\ login_client.state \in {"Init", "GGAuth", "LoginOk", "ServerList", "PlayOk"}
    /\ \E r \in RepliesIn(login_client.state) :
         login_client' = login_step(login_client, r)
    /\ UNCHANGED loginVars

NextLogin == LoginConnect \/ LoginRecv

SpecLogin == InitLogin /\ [][NextLogin]_vars

-----------------------------------------------------------------------------
(* l2_crypto.py : GameCrypt, the XOR stream cipher of the game connection.  *)
(* A key is 16 bytes; bytes 8..11 (here 9..12, sequences start at 1) are a  *)
(* little-endian 32-bit counter.  In the cipher runs game_client holds the  *)
(* GameCrypt of both ends of a connection, the packets in flight to each    *)
(* end, and as history what each end encrypted and decrypted and the last   *)
(* call made                                                                *)

MaxCalls == 3

RECURSIVE XorBits(_, _, _)
XorBits(a, b, n) ==
    IF n = 0 THEN 0
    ELSE (((a % 2) + (b % 2)) % 2) + 2 * XorBits(a \div 2, b \div 2, n - 1)

\* a ^ b on two bytes
Xor(a, b) == XorBits(a, b, 8)

\* self._in_key[i & 15], i counted from 1
KeyByte(key, i) == key[((i - 1) % 16) + 1]

\* the mutation of encrypt's loop that chains on the plaintext byte
RECURSIVE xor_encrypt_unchained(_, _, _, _)
xor_encrypt_unchained(data, key, i, temp) ==
    IF i > Len(data) THEN <<>>
    ELSE <<Xor(Xor(data[i], KeyByte(key, i)), temp)>>
             \o xor_encrypt_unchained(data, key, i + 1, data[i])

\* the loop of encrypt: temp = data[i] ^ key[i & 15] ^ temp; data[i] = temp
RECURSIVE xor_encrypt(_, _, _, _)
xor_encrypt(data, key, i, temp) ==
    IF i > Len(data) THEN <<>>
    ELSE LET t == Xor(Xor(data[i], KeyByte(key, i)), temp)
         IN  <<t>> \o xor_encrypt(data, key, i + 1, t)

\* the loop of decrypt: data[i] = data[i] ^ key[i & 15] ^ temp; temp = old data[i]
RECURSIVE xor_decrypt(_, _, _, _)
xor_decrypt(data, key, i, temp) ==
    IF i > Len(data) THEN <<>>
    ELSE <<Xor(Xor(data[i], KeyByte(key, i)), temp)>>
             \o xor_decrypt(data, key, i + 1, data[i])

\* struct.pack("<I", (old + size) & 0xFFFFFFFF) on the bytes of old: the sum
\* is carried from byte to byte and the carry out of the fourth byte is lost
RECURSIVE add_le(_, _)
add_le(bytes, carry) ==
    IF bytes = <<>> THEN <<>>
    ELSE <<(bytes[1] + carry) % 256>>
             \o add_le(Tail(bytes), (bytes[1] + carry) \div 256)

advance_key(key, size) ==
    SubSeq(key, 1, 8) \o add_le(SubSeq(key, 9, 12), size) \o SubSeq(key, 13, 16)

GameCrypt(key) == [in_key |-> key, out_key |-> key, enabled |-> FALSE]

\* decrypt and encrypt give the cipher after the call and the data returned
decrypt(gc, data) ==
    IF ~gc.enabled THEN [crypt |-> gc, data |-> data]
    ELSE [crypt |-> [gc EXCEPT !.in_key = advance_key(gc.in_key, Len(data))],
          data  |-> xor_decrypt(data, gc.in_key, 1, 0)]

\* the mutation of encrypt without the pass-through of the first call
encrypt_at_once(gc, data) ==
    [crypt |-> [gc EXCEPT !.enabled = TRUE,
                          !.out_key = advance_key(gc.out_key, Len(data))],
     data  |-> xor_encrypt(data, gc.out_key, 1, 0)]

encrypt(gc, data) ==
    IF ~gc.enabled THEN [crypt |-> [gc EXCEPT !.enabled = TRUE], data |-> data]
    ELSE [crypt |-> [gc EXCEPT !.out_key = advance_key(gc.out_key, Len(data))],
          data  |-> xor_encrypt(data, gc.out_key, 1, 0)]

\* the keys a KeyPacket may carry: one whose counter starts at 0, one whose
\* counter is 2 short of 2^32
XorKeys ==
    { <<148, 53, 0, 0, 161, 108, 84, 135, 0, 0, 0, 0, 9, 248, 21, 7>>,
      <<0, 17, 200, 3, 77, 90, 255, 1, 254, 255, 255, 255, 64, 5, 128, 33>> }

\* packet bodies of 1, 10 and 21 bytes: shorter than the counter's offset,
\* reaching into the counter, and longer than the key
Bodies ==
    { <<3>>,
      <<13, 0, 0, 0, 0, 0, 0, 0, 0, 1>>,
      <<8, 97, 0, 0, 0, 2, 0, 0, 0, 1, 0, 0, 0, 1, 0, 0, 0, 2, 0, 0, 0>> }

Ends == {"client", "server"}
Other(e) == IF e = "client" THEN "server" ELSE "client"

cryptVars == <<scanVars, sse, login_client, geo_row, editor>>

\* both ends construct GameCrypt(key); forced is l2_client.py setting
\* self.crypt._enabled = True on both before any packet
InitCrypt ==
    /\ ScanInit
    /\ sse = Unused
    /\ login_client = Unused
    /\ geo_row = Unused
    /\ editor = Unused
    /\ \E key \in XorKeys, forced \in BOOLEAN :
         game_client =
           [crypt  |-> [e \in Ends |->
                          [GameCrypt(key) EXCEPT !.enabled = forced]],
            key    |-> key,
            forced |-> forced,
            wire   |-> [e \in Ends |-> <<>>],
            sent   |-> [e \in Ends |-> <<>>],
            rcvd   |-> [e \in Ends |-> <<>>],
            calls  |-> 0,
            call   |-> [op |-> "none"]]

\* end e encrypts a body and puts the result on the wire to the other end
CryptEncrypt ==
    /\ game_client.calls < MaxCalls
    /\ \E e \in Ends, data \in Bodies :
         LET gc == game_client.crypt[e]
             r  == encrypt(gc, data)
         IN  game_client' =
               [game_client EXCEPT
                  !.crypt[e] = r.crypt,
                  !.wire[Other(e)] = Append(@, r.data),
                  !.sent[e] = Append(@, [plain |-> data, out_key |-> r.crypt.out_key]),
                  !.calls = @ + 1,
                  !.call = [op |-> "encrypt", end |-> e, before |-> gc,
                            data |-> data, ret |-> r.data]]
    /\ UNCHANGED cryptVars

\* end e takes the next packet sent to it and decrypts it
CryptDecrypt ==
    /\ game_client.calls < MaxCalls
    /\ \E e \in Ends :
         /\ game_client.wire[e] # <<>>
         /\ LET gc   == game_client.crypt[e]
                data == Head(game_client.wire[e])
                r    == decrypt(gc, data)
            IN  game_client' =
                  [game_client EXCEPT
                     !.crypt[e] = r.crypt,
                     !.wire[e] = Tail(@),
                     !.rcvd[e] = Append(@, [raw |-> r.data, in_key |-> r.crypt.in_key]),
                     !.calls = @ + 1,
                     !.call = [op |-> "decrypt", end |-> e, before |-> gc,
                               data |-> data, ret |-> r.data]]
    /\ UNCHANGED cryptVars

NextCrypt == CryptEncrypt \/ CryptDecrypt

SpecCrypt == InitCrypt /\ [][NextCrypt]_vars

-----------------------------------------------------------------------------
(* L2GameClient: the game-server handshake as full_connect_or_create drives *)
(* it (_auth_to_game, create_character, _select_and_enter).  game_client    *)
(* holds the state the client waits in, its socket, self.crypt, what the    *)
(* caller was given, and as history every packet sent (body and bytes on    *)
(* the wire) and every packet read (bytes on the wire and body seen)        *)

OP_KEY_PACKET       == 0
OP_CHAR_SELECT_INFO == 19
OP_CHAR_TEMPLATES   == 23
OP_CHAR_CREATE_OK   == 25
OP_CHAR_CREATE_FAIL == 26
OP_CHAR_SELECTED    == 21
OP_USER_INFO        == 4
OP_ACTION_FAILED    == 37
REQ_PROTOCOL_VERSION == 0
REQ_AUTH             == 8
REQ_NEW_CHARACTER    == 14
REQ_CHARACTER_CREATE == 11
REQ_CHAR_SELECT      == 13
REQ_ENTER_WORLD      == 3

MaxChars == 1
MaxInitPackets == 2

\* self.crypt = None
NoCrypt == [in_key |-> <<>>, out_key |-> <<>>, enabled |-> FALSE]

\* struct.pack("<I", n)
le32(n) ==
    <<n % 256, (n \div 256) % 256, (n \div 65536) % 256, (n \div 16777216) % 256>>

\* encode_string of the one-letter name "a": UTF-16LE and a 16-bit zero
NameBytes == <<97, 0, 0, 0>>

ProtocolVersion == <<REQ_PROTOCOL_VERSION, 234, 2>>
AuthLogin(lc) ==
    <<REQ_AUTH>> \o NameBytes \o le32(lc.play_ok2) \o le32(lc.play_ok1)
        \o le32(lc.login_ok1) \o le32(lc.login_ok2)
\* race, sex, classId, INT, STR, CON, MEN, DEX, WIT of the Human Fighter,
\* then hair style, hair colour, face
CharacterCreate ==
    <<REQ_CHARACTER_CREATE>> \o NameBytes
        \o le32(0) \o le32(0) \o le32(0) \o le32(21) \o le32(40) \o le32(43)
        \o le32(25) \o le32(30) \o le32(11) \o le32(0) \o le32(0) \o le32(0)
CharSelect(slot) ==
    <<REQ_CHAR_SELECT>> \o le32(slot) \o <<0, 0>> \o le32(0) \o le32(0) \o le32(0)

\* the packet bodies the server may answer with in each state; <<>> is a
\* packet with an empty body
GameReplies(state) ==
    CASE state = "KeyPacket" ->
           {<<OP_KEY_PACKET, flag>> \o key : flag \in {0, 1}, key \in XorKeys}
             \cup {<<OP_ACTION_FAILED>>}
      [] state = "CharSelectInfo" ->
           {<<OP_CHAR_SELECT_INFO>> \o le32(n) : n \in 0..MaxChars}
             \cup {<<OP_ACTION_FAILED>>, <<>>}
      [] state = "CharTemplates" ->
           {<<OP_CHAR_TEMPLATES>>, <<OP_ACTION_FAILED>>, <<>>}
      [] state = "CharCreate" ->
           {<<OP_CHAR_CREATE_OK>>, <<OP_CHAR_CREATE_FAIL>> \o le32(2),
            <<OP_ACTION_FAILED>>, <<>>}
      [] state = "CharSelectInfo2" ->
           {<<OP_CHAR_SELECT_INFO>> \o le32(1), <<OP_ACTION_FAILED>>, <<>>}
      [] state = "SelectChar" ->
           {<<OP_CHAR_SELECTED>> \o NameBytes \o le32(7),
            <<OP_ACTION_FAILED>>, <<>>}
      [] state = "InitPackets" ->
           {<<OP_USER_INFO>> \o le32(1) \o le32(2) \o le32(3) \o le32(0),
            <<OP_ACTION_FAILED>>, <<>>}

\* the bytes the server puts on the wire for a body: its own GameCrypt, in
\* step with the client's inbound key, encrypts it once the key was sent
wire_of(gc, body) ==
    IF gc.crypt = NoCrypt THEN body
    ELSE xor_encrypt(body, gc.crypt.in_key, 1, 0)

\* the mutation of the key installation that leaves the cipher as constructed
install_fresh(key) == GameCrypt(key)

\* self.crypt = GameCrypt(xor_key); self.crypt._enabled = True
install_crypt(key) == [GameCrypt(key) EXCEPT !.enabled = TRUE]

\* self.sock.sendall of a body, with no cipher applied
raw_send(gc, pkt) ==
    [gc EXCEPT !.sent = Append(@, [body |-> pkt, wire |-> pkt,
                                   crypt |-> gc.crypt, after |-> gc.crypt])]

\* send_packet: encrypt a copy if self.crypt, then sendall
send_packet(gc, pkt) ==
    IF gc.crypt = NoCrypt THEN raw_send(gc, pkt)
    ELSE LET r == encrypt(gc.crypt, pkt)
         IN  [gc EXCEPT !.crypt = r.crypt,
                        !.sent = Append(@, [body |-> pkt, wire |-> r.data,
                                            crypt |-> gc.crypt,
                                            after |-> r.crypt])]

\* recv_packet: an empty body is returned as it is, any other goes through
\* self.crypt.decrypt if self.crypt
recv_packet(gc, wire) ==
    IF gc.crypt = NoCrypt \/ wire = <<>>
    THEN [crypt |-> gc.crypt, data |-> wire]
    ELSE decrypt(gc.crypt, wire)

\* game.close(); return None
game_aborts(gc) ==
    [gc EXCEPT !.state = "closed", !.sock = "closed", !.result = "None"]

\* _select_and_enter, from the reply to CharSelect to the sending of EnterWorld
select_and_enter(gc, raw) ==
    IF raw = <<>> THEN game_aborts(gc)
    ELSE [send_packet(gc, <<REQ_ENTER_WORLD>>) EXCEPT !.state = "InitPackets"]

\* one receive of the handshake in state gc.state and all the client does
\* until it waits for the next packet or returns
game_step(gc, wire) ==
    LET r   == IF gc.state = "KeyPacket"
               THEN [crypt |-> gc.crypt, data |-> wire]
               ELSE recv_packet(gc, wire)
        raw == r.data
        g   == [gc EXCEPT !.crypt = r.crypt,
                          !.got = Append(@, [state |-> gc.state, wire |-> wire,
                                             raw |-> raw, crypt |-> gc.crypt,
                                             after |-> r.crypt])]
    IN  CASE gc.state = "KeyPacket" ->
               IF raw[1] # OP_KEY_PACKET \/ raw[2] # 1 THEN game_aborts(g)
               ELSE [send_packet([g EXCEPT !.crypt =
                                     install_crypt(SubSeq(raw, 3, 18))],
                                 AuthLogin(g.login))
                       EXCEPT !.state = "CharSelectInfo"]
          [] gc.state = "CharSelectInfo" ->
               IF raw = <<>> THEN [g EXCEPT !.state = "raised", !.result = "raised"]
               ELSE IF raw[1] # OP_CHAR_SELECT_INFO THEN game_aborts(g)
               ELSE IF raw[2] = 0
               THEN [send_packet(g, <<REQ_NEW_CHARACTER>>)
                       EXCEPT !.state = "CharTemplates"]
               ELSE [send_packet(g, CharSelect(0)) EXCEPT !.state = "SelectChar"]
          [] gc.state = "CharTemplates" ->
               [send_packet(g, CharacterCreate) EXCEPT !.state = "CharCreate"]
          [] gc.state = "CharCreate" ->
               IF raw = <<>> \/ raw[1] # OP_CHAR_CREATE_OK THEN game_aborts(g)
               ELSE [g EXCEPT !.state = "CharSelectInfo2"]
          [] gc.state = "CharSelectInfo2" ->
               [send_packet(g, CharSelect(0)) EXCEPT !.state = "SelectChar"]
          [] gc.state = "SelectChar" -> select_and_enter(g, raw)
          [] gc.state = "InitPackets" ->
               IF raw # <<>> /\ raw[1] = OP_USER_INFO
               THEN [g EXCEPT !.state = "in_world", !.result = "game"]
               ELSE g

gameVars == <<scanVars, sse, login_client, geo_row, editor>>

\* L2GameClient.__init__, with the keys the login handshake yielded
InitGame ==
    /\ ScanInit
    /\ sse = Unused
    /\ login_client = Unused
    /\ geo_row = Unused
    /\ editor = Unused
    /\ \E k \in 1..MaxKey :
         game_client =
           [state |-> "new", sock |-> "closed", crypt |-> NoCrypt,
            login |-> [login_ok1 |-> k, login_ok2 |-> MaxKey + 1 - k,
                       play_ok1 |-> k, play_ok2 |-> k],
            sent |-> <<>>, got |-> <<>>, result |-> "pending"]

\* _auth_to_game: connect and send ProtocolVersion
GameConnect ==
    /\ game_client.state = "new"
    /\ game_client' = [raw_send(game_client, ProtocolVersion)
                        EXCEPT !.state = "KeyPacket", !.sock = "open"]
    /\ UNCHANGED gameVars

\* the next packet of the handshake arrives
GameRecv ==
    /\ game_client.state \in {"KeyPacket", "CharSelectInfo", "CharTemplates",
                              "CharCreate", "CharSelectInfo2", "SelectChar"}
    /\ \E body \in GameReplies(game_client.state) :
         game_client' = game_step(game_client, wire_of(game_client, body))
    /\ UNCHANGED gameVars

\* the loop of _select_and_enter after EnterWorld: a packet arrives
GameInitPacket ==
    /\ game_client.state = "InitPackets"
    /\ Cardinality({i \in DOMAIN game_client.got :
                       game_client.got[i].state = "InitPackets"}) < MaxInitPackets
    /\ \E body \in GameReplies("InitPackets") :
         game_client' = game_step(game_client, wire_of(game_client, body))
    /\ UNCHANGED gameVars

\* the loop ends on socket.timeout or its deadline: return True all the same
GameInitTimeout ==
    /\ game_client.state = "InitPackets"
    /\ game_client' = [game_client EXCEPT !.state = "in_world",
                                           !.result = "game"]
    /\ UNCHANGED gameVars

NextGame == GameConnect \/ GameRecv \/ GameInitPacket \/ GameInitTimeout

SpecGame == InitGame /\ [][NextGame]_vars

-----------------------------------------------------------------------------
(* L2GameClient._handle_creature_say and the two queues it fills.  A text   *)
(* is its leading characters (head) and a serial number standing for the    *)
(* rest.  game_client holds geodata_queue, sys_messages, and as history     *)
(* every text handled (said) and every text the scan worker took (taken)    *)

SysCap == 2
MaxSay == 4

Heads == {"GEODATA|", "GEODATA_CHECK|", "GEODATA", "Welcome"}

\* text.startswith(prefix)
startswith(text, prefix) == text.head = prefix

is_geodata(text) ==
    startswith(text, "GEODATA|") \/ startswith(text, "GEODATA_CHECK|")

\* self.sys_messages.put_nowait(text), queue.Full swallowed
put_or_pass(q, text) == IF Len(q) >= SysCap THEN q ELSE Append(q, text)

handle_creature_say(gc, text) ==
    IF is_geodata(text)
    THEN [gc EXCEPT !.geodata_queue = Append(@, text), !.said = Append(@, text)]
    ELSE [gc EXCEPT !.sys_messages = put_or_pass(@, text),
                    !.said = Append(@, text)]

sayVars == <<scanVars, sse, login_client, geo_row, editor>>

InitSay ==
    /\ ScanInit
    /\ sse = Unused
    /\ login_client = Unused
    /\ geo_row = Unused
    /\ editor = Unused
    /\ game_client = [geodata_queue |-> <<>>, sys_messages |-> <<>>,
                      said |-> <<>>, taken |-> <<>>]

\* the receive thread dispatches a CreatureSay packet to its handler
CreatureSay ==
    /\ Len(game_client.said) < MaxSay
    /\ \E h \in Heads :
         game_client' =
           handle_creature_say(game_client,
                               [head |-> h, n |-> Len(game_client.said) + 1])
    /\ UNCHANGED sayVars

\* the scan worker takes the next response: geodata_queue.get
GeodataGet ==
    /\ game_client.geodata_queue # <<>>
    /\ game_client' =
         [game_client EXCEPT !.geodata_queue = Tail(@),
                             !.taken = Append(@, Head(game_client.geodata_queue))]
    /\ UNCHANGED sayVars

NextSay == CreatureSay \/ GeodataGet

SpecSay == InitSay /\ [][NextSay]_vars

-----------------------------------------------------------------------------
(* ScanWorker._scan_region: the decoding of one scan_geo payload, 3 bytes   *)
(* for each of the Cols blocks of a row (256 * 3 bytes in the program).     *)
(* geo_row holds the dictionaries heights and nswe_data, the row being      *)
(* scanned, and as history the last payload decoded and the dictionaries    *)
(* before it                                                                *)

\* the three bytes a block may be sent as: heights 0, -1, -32768 and 32767
BlockBytes == { <<0, 0, 15>>, <<255, 255, 0>>, <<0, 128, 255>>, <<255, 127, 1>> }

\* the payloads of n blocks
RECURSIVE Payloads(_)
Payloads(n) ==
    IF n = 0 THEN {<<>>}
    ELSE {p \o b : p \in Payloads(n - 1), b \in BlockBytes}

\* the mutation of the decoding that reads the height as unsigned ("<H")
unpack_unsigned(raw, offset) == raw[offset + 1] + 256 * raw[offset + 2]

\* struct.unpack_from("<h", raw, offset)[0]
unpack_h(raw, offset) ==
    LET u == raw[offset + 1] + 256 * raw[offset + 2]
    IN  IF u >= 32768 THEN u - 65536 ELSE u

\* the loop over bx of one row: heights[(bx, block_y)], nswe_data[(bx, block_y)]
parse_row(g, raw) ==
    LET row == {<<bx, g.block_y>> : bx \in 0..(Cols - 1)}
    IN  [g EXCEPT
           !.heights = [c \in DOMAIN g.heights \cup row |->
                          IF c \in row THEN unpack_h(raw, c[1] * 3)
                          ELSE g.heights[c]],
           !.nswe = [c \in DOMAIN g.nswe \cup row |->
                       IF c \in row THEN raw[c[1] * 3 + 3] ELSE g.nswe[c]],
           !.raw = raw,
           !.before = [heights |-> g.heights, nswe |-> g.nswe,
                       block_y |-> g.block_y],
           !.block_y = g.block_y + 1]

rowVars == <<scanVars, sse, login_client, game_client, editor>>

InitRow ==
    /\ ScanInit
    /\ editor = Unused
    /\ sse = Unused
    /\ login_client = Unused
    /\ game_client = Unused
    /\ geo_row = [heights |-> EmptyMap, nswe |-> EmptyMap, block_y |-> 0,
                  raw |-> <<>>, exc |-> "",
                  before |-> [heights |-> EmptyMap, nswe |-> EmptyMap,
                              block_y |-> 0]]

\* a payload of the right size arrives for the row being scanned
RowReceived ==
    /\ geo_row.exc = ""
    /\ geo_row.block_y < Rows
    /\ \E raw \in Payloads(Cols) : geo_row' = parse_row(geo_row, raw)
    /\ UNCHANGED rowVars

\* a payload of another size: RuntimeError("Invalid data size"), nothing stored
RowBadSize ==
    /\ geo_row.exc = ""
    /\ geo_row.block_y < Rows
    /\ \E raw \in Payloads(Cols - 1) :
         geo_row' = [geo_row EXCEPT !.exc = SIZE, !.raw = raw]
    /\ UNCHANGED rowVars

NextRow == RowReceived \/ RowBadSize

SpecRow == InitRow /\ [][NextRow]_vars

-----------------------------------------------------------------------------
(* l2d_parser.py : the region file codec and random access.  A region has   *)
(* blocks of bcx x bcy cells, rbx x rby of them; the program fixes 8 x 8    *)
(* and 256 x 256 as module constants, the model carries them in the region  *)
(* (dims) so that the codec can be run on every small file and the editor   *)
(* also on a region with the program's 8 x 8 blocks.  Bytes are 0..255,     *)
(* offsets count from 0 as in the program                                   *)

TYPE_FLAT       == 208
TYPE_COMPLEX    == 209
TYPE_MULTILAYER == 210
NSWE_ALL        == 15
NSWE_ALL_L2D    == 255
BLOCK_CELLS_X   == 8
BLOCK_CELLS_Y   == 8

BlockSide == 2

\* the dimensions of the regions of the exhaustive runs
SmallDims == [bcx |-> BlockSide, bcy |-> BlockSide,
              rbx |-> REGION_BLOCKS_X, rby |-> REGION_BLOCKS_Y]

Cell(height, nswe) == [height |-> height, nswe |-> nswe]

BlockFlat(height) ==
    [block_type |-> TYPE_FLAT, height |-> height, cells |-> <<>>,
     cell_layers |-> <<>>]
BlockComplex(cells) ==
    [block_type |-> TYPE_COMPLEX, height |-> 0, cells |-> cells,
     cell_layers |-> <<>>]
BlockMultilayer(cell_layers) ==
    [block_type |-> TYPE_MULTILAYER, height |-> 0, cells |-> <<>>,
     cell_layers |-> cell_layers]

GeoRegion(name, blocks, dims) ==
    [region_x |-> name[1], region_y |-> name[2], blocks |-> blocks,
     dims |-> dims]

\* what a function gives: a value, or the exception it raised
Raised == [ok |-> FALSE]

\* n times (nswe = data[pos]; height = "<h" at pos + 1; pos += 3)
RECURSIVE parse_cells(_, _, _)
parse_cells(data, pos, n) ==
    IF n = 0 THEN [ok |-> TRUE, cells |-> <<>>, pos |-> pos]
    ELSE IF pos + 3 > Len(data) THEN Raised
    ELSE LET rest == parse_cells(data, pos + 3, n - 1)
         IN  IF ~rest.ok THEN Raised
             ELSE [ok |-> TRUE, pos |-> rest.pos,
                   cells |-> <<Cell(unpack_h(data, pos + 1), data[pos + 1])>>
                               \o rest.cells]

\* n times (layer_count = data[pos]; pos += 1; that many cells)
RECURSIVE parse_stacks(_, _, _)
parse_stacks(data, pos, n) ==
    IF n = 0 THEN [ok |-> TRUE, cells |-> <<>>, pos |-> pos]
    ELSE IF pos + 1 > Len(data) THEN Raised
    ELSE LET layers == parse_cells(data, pos + 1, data[pos + 1])
         IN  IF ~layers.ok THEN Raised
             ELSE LET rest == parse_stacks(data, layers.pos, n - 1)
                  IN  IF ~rest.ok THEN Raised
                      ELSE [ok |-> TRUE, pos |-> rest.pos,
                            cells |-> <<layers.cells>> \o rest.cells]

\* one turn of the loop of parse_l2d
parse_block(data, pos, dims) ==
    IF pos + 1 > Len(data) THEN Raised
    ELSE LET block_type == data[pos + 1]
         IN  CASE block_type = TYPE_FLAT ->
                    IF pos + 3 > Len(data) THEN Raised
                    ELSE [ok |-> TRUE, pos |-> pos + 3,
                          block |-> BlockFlat(unpack_h(data, pos + 1))]
               [] block_type = TYPE_COMPLEX ->
                    LET r == parse_cells(data, pos + 1, dims.bcx * dims.bcy)
                    IN  IF ~r.ok THEN Raised
                        ELSE [ok |-> TRUE, pos |-> r.pos,
                              block |-> BlockComplex(r.cells)]
               [] block_type = TYPE_MULTILAYER ->
                    LET r == parse_stacks(data, pos + 1, dims.bcx * dims.bcy)
                    IN  IF ~r.ok THEN Raised
                        ELSE [ok |-> TRUE, pos |-> r.pos,
                              block |-> BlockMultilayer(r.cells)]
               [] OTHER -> Raised

RECURSIVE parse_blocks(_, _, _, _)
parse_blocks(data, pos, n, dims) ==
    IF n = 0 THEN [ok |-> TRUE, blocks |-> <<>>, pos |-> pos]
    ELSE LET b == parse_block(data, pos, dims)
         IN  IF ~b.ok THEN Raised
             ELSE LET rest == parse_blocks(data, b.pos, n - 1, dims)
                  IN  IF ~rest.ok THEN Raised
                      ELSE [ok |-> TRUE, pos |-> rest.pos,
                            blocks |-> <<b.block>> \o rest.blocks]

\* parse_l2d: REGION_BLOCKS turns of the loop, then return the region; pos
\* is not looked at again
parse_l2d(name, data, dims) ==
    LET r == parse_blocks(data, 0, dims.rbx * dims.rby, dims)
    IN  IF ~r.ok THEN Raised
        ELSE [ok |-> TRUE, region |-> GeoRegion(name, r.blocks, dims)]

\* struct.pack("<h", height): struct.error outside the 16-bit range
pack_h(height) ==
    IF height \in -32768..32767
    THEN [ok |-> TRUE, bytes |-> <<height % 256, (height \div 256) % 256>>]
    ELSE Raised

\* out.append(cell.nswe & 0xFF); out.extend(struct.pack("<h", cell.height))
RECURSIVE write_cells(_)
write_cells(cells) ==
    IF cells = <<>> THEN [ok |-> TRUE, bytes |-> <<>>]
    ELSE LET h    == pack_h(cells[1].height)
             rest == write_cells(Tail(cells))
         IN  IF ~h.ok \/ ~rest.ok THEN Raised
             ELSE [ok |-> TRUE,
                   bytes |-> <<cells[1].nswe % 256>> \o h.bytes \o rest.bytes]

\* out.append(len(layers)), ValueError above 255, then the cells of the stack
RECURSIVE write_stacks(_)
write_stacks(cell_layers) ==
    IF cell_layers = <<>> THEN [ok |-> TRUE, bytes |-> <<>>]
    ELSE LET stack == write_cells(cell_layers[1])
             rest  == write_stacks(Tail(cell_layers))
         IN  IF Len(cell_layers[1]) > 255 \/ ~stack.ok \/ ~rest.ok THEN Raised
             ELSE [ok |-> TRUE,
                   bytes |-> <<Len(cell_layers[1])>> \o stack.bytes \o rest.bytes]

write_block(block) ==
    CASE block.block_type = TYPE_FLAT ->
           LET h == pack_h(block.height)
           IN  IF ~h.ok THEN Raised
               ELSE [ok |-> TRUE, bytes |-> <<TYPE_FLAT>> \o h.bytes]
      [] block.block_type = TYPE_COMPLEX ->
           LET c == write_cells(block.cells)
           IN  IF ~c.ok THEN Raised
               ELSE [ok |-> TRUE, bytes |-> <<TYPE_COMPLEX>> \o c.bytes]
      [] block.block_type = TYPE_MULTILAYER ->
           LET c == write_stacks(block.cell_layers)
           IN  IF ~c.ok THEN Raised
               ELSE [ok |-> TRUE, bytes |-> <<TYPE_MULTILAYER>> \o c.bytes]

\* write_l2d: the bytes handed to filepath.write_bytes, unless packing raised
RECURSIVE write_l2d(_)
write_l2d(blocks) ==
    IF blocks = <<>> THEN [ok |-> TRUE, bytes |-> <<>>]
    ELSE LET b    == write_block(blocks[1])
             rest == write_l2d(Tail(blocks))
         IN  IF ~b.ok \/ ~rest.ok THEN Raised
             ELSE [ok |-> TRUE, bytes |-> b.bytes \o rest.bytes]

\* self.blocks[i] of a Python list: a negative i counts from the end, an i
\* outside -len..len-1 raises IndexError (0 here); the result counts from 1
py_index(seq, i) ==
    IF i >= 0 /\ i < Len(seq) THEN i + 1
    ELSE IF i < 0 /\ i >= -Len(seq) THEN Len(seq) + i + 1
    ELSE 0

\* the index in region.blocks that get_block(cx // 8, cy // 8) reads
block_index(region, cx, cy) ==
    py_index(region.blocks,
             (cx \div region.dims.bcx) * region.dims.rby
               + (cy \div region.dims.bcy))

\* the index x * BLOCK_CELLS_Y + y (from 1) of the cell within its block
cell_index(region, cx, cy) ==
    (cx % region.dims.bcx) * region.dims.bcy + (cy % region.dims.bcy) + 1

\* GeoRegion.get_layers
get_layers(region, cx, cy) ==
    LET bi == block_index(region, cx, cy)
        b  == region.blocks[bi]
        ci == cell_index(region, cx, cy)
    IN  IF bi = 0 THEN Raised
        ELSE CASE b.block_type = TYPE_FLAT ->
                    [ok |-> TRUE, cells |-> <<Cell(b.height, NSWE_ALL_L2D)>>]
               [] b.block_type = TYPE_COMPLEX ->
                    [ok |-> TRUE, cells |-> <<b.cells[ci]>>]
               [] b.block_type = TYPE_MULTILAYER ->
                    [ok |-> TRUE, cells |-> b.cell_layers[ci]]

\* GeoRegion.get_cell
get_cell(region, cx, cy, layer) ==
    LET bi == block_index(region, cx, cy)
        b  == region.blocks[bi]
        ci == cell_index(region, cx, cy)
    IN  IF bi = 0 THEN Raised
        ELSE CASE b.block_type = TYPE_FLAT ->
                    [ok |-> TRUE, cell |-> Cell(b.height, NSWE_ALL_L2D)]
               [] b.block_type = TYPE_COMPLEX ->
                    [ok |-> TRUE, cell |-> b.cells[ci]]
               [] b.block_type = TYPE_MULTILAYER ->
                    LET layers == b.cell_layers[ci]
                        i == IF layer < Len(layers) THEN py_index(layers, layer)
                             ELSE py_index(layers, 0)
                    IN  IF i = 0 THEN Raised
                        ELSE [ok |-> TRUE, cell |-> layers[i]]

-----------------------------------------------------------------------------
(* parse_l2d, write_l2d and random access on every file of a small region.  *)
(* editor holds the bytes of the file, how they were made (kind), what      *)
(* parse_l2d gave, what write_l2d gave for the parsed region, and the last  *)
(* cell query with its answers                                              *)

\* the blocks the files are made of: a Flat block of height -3450, a Complex
\* block alternating (0xFF, 0) and (0x0F, 100), a Multilayer block whose
\* first cell has two layers, and a Multilayer block whose first cell has a
\* layer count of 0
BlockChoices(dims) ==
    LET n == dims.bcx * dims.bcy
    IN  { BlockFlat(-3450),
          BlockComplex([i \in 1..n |->
                          IF i % 2 = 1 THEN Cell(0, 255) ELSE Cell(100, 15)]),
          BlockMultilayer([i \in 1..n |->
                             IF i = 1 THEN <<Cell(0, 255), Cell(256, 255)>>
                             ELSE <<Cell(-1, 0)>>]),
          BlockMultilayer([i \in 1..n |->
                             IF i = 1 THEN <<>> ELSE <<Cell(7, 15)>>]) }

\* the byte strings of n blocks end to end
RECURSIVE Encodings(_, _)
Encodings(n, dims) ==
    IF n = 0 THEN {<<>>}
    ELSE {write_block(b).bytes \o rest :
            b \in BlockChoices(dims), rest \in Encodings(n - 1, dims)}

FileKinds == {"exact", "short", "long", "badtype"}

\* a file of exactly REGION_BLOCKS blocks, one that lost its last byte, one
\* with a byte after the last block, one whose first type byte is unknown
FileOfKind(kind, bytes) ==
    CASE kind = "exact"   -> bytes
      [] kind = "short"   -> SubSeq(bytes, 1, Len(bytes) - 1)
      [] kind = "long"    -> bytes \o <<0>>
      [] kind = "badtype" -> <<TYPE_MULTILAYER + 1>> \o Tail(bytes)

parseVars == <<scanVars, sse, login_client, game_client, geo_row>>

InitParse ==
    /\ ScanInit
    /\ sse = Unused
    /\ login_client = Unused
    /\ game_client = Unused
    /\ geo_row = Unused
    /\ \E kind \in FileKinds,
          bytes \in Encodings(SmallDims.rbx * SmallDims.rby, SmallDims) :
         editor = [step |-> "file", kind |-> kind,
                   file |-> FileOfKind(kind, bytes),
                   parsed |-> Raised, written |-> Raised,
                   req |-> [cx |-> 0, cy |-> 0, layer |-> 0],
                   layers |-> Raised, cell |-> Raised]

\* get_region: region = parse_l2d(filepath)
ParseFile ==
    /\ editor.step = "file"
    /\ editor' = [editor EXCEPT
                    !.step = "parsed",
                    !.parsed = parse_l2d(<<0, 0>>, editor.file, SmallDims)]
    /\ UNCHANGED parseVars

\* write_l2d(region, path) of the region just parsed
WriteParsed ==
    /\ editor.step = "parsed"
    /\ editor.parsed.ok
    /\ editor' = [editor EXCEPT
                    !.step = "written",
                    !.written = write_l2d(editor.parsed.region.blocks)]
    /\ UNCHANGED parseVars

\* api_cell_info / cmd_info: get_layers(cx, cy) and get_cell(cx, cy, layer)
\* for a cell of the region and a layer index >= 0
QueryCell ==
    /\ editor.step = "parsed"
    /\ editor.parsed.ok
    /\ \E cx \in 0..(SmallDims.rbx * SmallDims.bcx - 1),
          cy \in 0..(SmallDims.rby * SmallDims.bcy - 1),
          layer \in 0..2 :
         editor' = [editor EXCEPT
                      !.step = "queried",
                      !.req = [cx |-> cx, cy |-> cy, layer |-> layer],
                      !.layers = get_layers(editor.parsed.region, cx, cy),
                      !.cell = get_cell(editor.parsed.region, cx, cy, layer)]
    /\ UNCHANGED parseVars

NextParse == ParseFile \/ WriteParsed \/ QueryCell

SpecParse == InitParse /\ [][NextParse]_vars

-----------------------------------------------------------------------------
(* app.py : the editor's operations on the cached region (api_edit_cell,    *)
(* api_unblock, api_save, get_region).  editor holds the cached region,     *)
(* the file, the region before the last operation, the last request, its    *)
(* outcome and count, and what the last save wrote and the reload parsed    *)

MaxEdits == 2

\* the cell (x, y) of block bi set to the cells given: cells[ci] = ...
set_cell(region, bi, ci, cell) ==
    [region EXCEPT !.blocks[bi].cells[ci] = cell]

\* api_edit_cell: the answer is ok with the region edited, or an exception
\* with the region as it was
api_edit_cell(region, req) ==
    LET bi  == block_index(region, req.cx, req.cy)
        ci  == cell_index(region, req.cx, req.cy)
        old == get_cell(region, req.cx, req.cy, req.layer)
    IN  IF bi = 0 \/ ~old.ok THEN Raised
        ELSE LET block      == region.blocks[bi]
                 new_height == IF req.has_height THEN req.height
                               ELSE old.cell.height
                 new_nswe   == IF req.has_nswe THEN req.nswe ELSE old.cell.nswe
             IN  CASE block.block_type = TYPE_FLAT ->
                        [ok |-> TRUE,
                         region |-> [region EXCEPT !.blocks[bi].height = new_height]]
                   [] block.block_type = TYPE_COMPLEX ->
                        [ok |-> TRUE,
                         region |-> set_cell(region, bi, ci,
                                             Cell(new_height, new_nswe))]
                   [] block.block_type = TYPE_MULTILAYER ->
                        LET li == py_index(block.cell_layers[ci], req.layer)
                        IN  IF li = 0 THEN Raised
                            ELSE [ok |-> TRUE,
                                  region |-> [region EXCEPT
                                     !.blocks[bi].cell_layers[ci][li] =
                                         Cell(new_height, new_nswe)]]

\* (nswe & NSWE_ALL) != NSWE_ALL
not_walkable(cell) == (cell.nswe % (NSWE_ALL + 1)) # NSWE_ALL

\* the mutation of the sweep that opens the cell and resets its height
unblock_cell_flattens(acc, x, y) ==
    LET region == acc.region
        bi == block_index(region, x, y)
        ci == cell_index(region, x, y)
    IN  IF x < 0 \/ y < 0 \/ x >= region.dims.rbx * region.dims.bcx
           \/ y >= region.dims.rby * region.dims.bcy
        THEN acc
        ELSE IF region.blocks[bi].block_type = TYPE_COMPLEX
                /\ not_walkable(region.blocks[bi].cells[ci])
        THEN [region |-> set_cell(region, bi, ci, Cell(0, NSWE_ALL_L2D)),
              count |-> acc.count + 1]
        ELSE acc

\* the mutation of the sweep that opens the cells but does not count them
unblock_cell_uncounted(acc, x, y) ==
    LET region == acc.region
        bi == block_index(region, x, y)
        ci == cell_index(region, x, y)
    IN  IF x < 0 \/ y < 0 \/ x >= region.dims.rbx * region.dims.bcx
           \/ y >= region.dims.rby * region.dims.bcy
        THEN acc
        ELSE IF region.blocks[bi].block_type = TYPE_COMPLEX
        THEN [acc EXCEPT !.region =
                 set_cell(region, bi, ci,
                          Cell(region.blocks[bi].cells[ci].height, NSWE_ALL_L2D))]
        ELSE acc

\* the body of the two loops of api_unblock for the cell (x, y)
unblock_cell(acc, x, y) ==
    LET region == acc.region
        bi == block_index(region, x, y)
        ci == cell_index(region, x, y)
    IN  IF x < 0 \/ y < 0 \/ x >= region.dims.rbx * region.dims.bcx
           \/ y >= region.dims.rby * region.dims.bcy
        THEN acc
        ELSE CASE region.blocks[bi].block_type = TYPE_FLAT -> acc
               [] region.blocks[bi].block_type = TYPE_COMPLEX ->
                    LET old == region.blocks[bi].cells[ci]
                    IN  IF not_walkable(old)
                        THEN [region |-> set_cell(region, bi, ci,
                                            Cell(old.height, NSWE_ALL_L2D)),
                              count |-> acc.count + 1]
                        ELSE acc
               [] region.blocks[bi].block_type = TYPE_MULTILAYER ->
                    LET layers == region.blocks[bi].cell_layers[ci]
                    IN  [region |-> [region EXCEPT
                            !.blocks[bi].cell_layers[ci] =
                               [li \in DOMAIN layers |->
                                  IF not_walkable(layers[li])
                                  THEN Cell(layers[li].height, NSWE_ALL_L2D)
                                  ELSE layers[li]]],
                         count |-> acc.count
                            + Cardinality({li \in DOMAIN layers :
                                             not_walkable(layers[li])})]

\* for dy in range(-radius, radius + 1): the cells (cx + dx, cy + dy); the
\* count so far is read at each turn, it is never negative
RECURSIVE unblock_dy(_, _, _, _, _)
unblock_dy(acc, x, cy, radius, dy) ==
    IF dy > radius \/ acc.count < 0 THEN acc
    ELSE unblock_dy(unblock_cell(acc, x, cy + dy), x, cy, radius, dy + 1)

\* for dx in range(-radius, radius + 1)
RECURSIVE unblock_dx(_, _, _, _, _)
unblock_dx(acc, cx, cy, radius, dx) ==
    IF dx > radius \/ acc.count < 0 THEN acc
    ELSE unblock_dx(unblock_dy(acc, cx + dx, cy, radius, -radius),
                    cx, cy, radius, dx + 1)

\* api_unblock: the region after the sweep and the count returned
api_unblock(region, cx, cy, radius) ==
    unblock_dx([region |-> region, count |-> 0], cx, cy, radius, -radius)

\* the block of the given type among BlockChoices whose stacks all hold a cell
StartBlock(block_type) ==
    CHOOSE b \in BlockChoices(SmallDims) :
        /\ b.block_type = block_type
        /\ \A c \in DOMAIN b.cell_layers : b.cell_layers[c] # <<>>

\* a region as parse_l2d returns it, with a Flat, a Complex and Multilayer
\* blocks
StartRegions ==
    { GeoRegion(<<22, 16>>,
                [i \in 1..REGION_BLOCKS |->
                   IF i = 1 THEN StartBlock(TYPE_FLAT)
                   ELSE IF i = 2 THEN StartBlock(TYPE_COMPLEX)
                   ELSE StartBlock(TYPE_MULTILAYER)],
                SmallDims) }

\* the coordinates tried on one axis of w cells: both edges, both sides
EdgeCoords(w) == {-1, 0, w - 2, w - 1, w}

\* height and nswe as the client sends them; makeWalkable sends nswe alone
EditValues ==
    { [has_height |-> TRUE, height |-> 100, has_nswe |-> TRUE, nswe |-> 15],
      [has_height |-> FALSE, height |-> 0, has_nswe |-> TRUE, nswe |-> 255],
      [has_height |-> TRUE, height |-> 40000, has_nswe |-> TRUE, nswe |-> 0],
      [has_height |-> TRUE, height |-> -5, has_nswe |-> TRUE, nswe |-> 256] }

NoRequest == [op |-> "none", cx |-> 0, cy |-> 0, layer |-> 0, radius |-> 0,
              has_height |-> FALSE, height |-> 0, has_nswe |-> FALSE,
              nswe |-> 0]

NewEditor(region) ==
    [step |-> "loaded", region |-> region, before |-> region,
     req |-> NoRequest, ok |-> TRUE, count |-> 0, edits |-> 0,
     written |-> Raised, parsed |-> Raised]

editVars == <<scanVars, sse, login_client, game_client, geo_row>>

InitEdit ==
    /\ ScanInit
    /\ sse = Unused
    /\ login_client = Unused
    /\ game_client = Unused
    /\ geo_row = Unused
    /\ \E region \in StartRegions : editor = NewEditor(region)

CanEdit == editor.step \in {"loaded", "edited", "unblocked"}
             /\ editor.edits < MaxEdits

\* POST /api/region/<filename>/edit
EditCell ==
    /\ CanEdit
    /\ \E cx \in EdgeCoords(editor.region.dims.rbx * editor.region.dims.bcx),
          cy \in EdgeCoords(editor.region.dims.rby * editor.region.dims.bcy),
          layer \in {0, 1}, v \in EditValues :
         LET req == [NoRequest EXCEPT !.op = "edit", !.cx = cx, !.cy = cy,
                       !.layer = layer, !.has_height = v.has_height,
                       !.height = v.height, !.has_nswe = v.has_nswe,
                       !.nswe = v.nswe]
             r == api_edit_cell(editor.region, req)
         IN  editor' = [editor EXCEPT
                          !.step = "edited", !.before = editor.region,
                          !.region = IF r.ok THEN r.region ELSE editor.region,
                          !.req = req, !.ok = r.ok, !.edits = @ + 1]
    /\ UNCHANGED editVars

\* POST /api/region/<filename>/unblock
Unblock ==
    /\ CanEdit
    /\ \E cx \in EdgeCoords(editor.region.dims.rbx * editor.region.dims.bcx),
          cy \in EdgeCoords(editor.region.dims.rby * editor.region.dims.bcy),
          radius \in 0..2 :
         LET r == api_unblock(editor.region, cx, cy, radius)
         IN  editor' = [editor EXCEPT
                          !.step = "unblocked", !.before = editor.region,
                          !.region = r.region, !.count = r.count, !.ok = TRUE,
                          !.req = [NoRequest EXCEPT !.op = "unblock",
                                     !.cx = cx, !.cy = cy, !.radius = radius],
                          !.edits = @ + 1]
    /\ UNCHANGED editVars

\* POST /api/region/<filename>/save: write_l2d, then clear_cache
Save ==
    /\ editor.step \in {"edited", "unblocked"}
    /\ editor' = [editor EXCEPT !.step = "saved",
                                !.written = write_l2d(editor.region.blocks)]
    /\ UNCHANGED editVars

\* the next get_region parses the file that was saved
Reload ==
    /\ editor.step = "saved"
    /\ editor.written.ok
    /\ editor' = [editor EXCEPT
                    !.step = "reloaded",
                    !.parsed = parse_l2d(<<editor.region.region_x,
                                           editor.region.region_y>>,
                                         editor.written.bytes,
                                         editor.region.dims)]
    /\ UNCHANGED editVars

NextEdit == EditCell \/ Unblock \/ Save \/ Reload

SpecEdit == InitEdit /\ [][NextEdit]_vars

-----------------------------------------------------------------------------
(* The unblock sweep on a region of blocks of BLOCK_CELLS_X x BLOCK_CELLS_Y *)
(* cells: block (10, 10) Complex with every cell closed, the others Flat    *)

ScenarioBlocks == 12

ScenarioDims == [bcx |-> BLOCK_CELLS_X, bcy |-> BLOCK_CELLS_Y,
                 rbx |-> ScenarioBlocks, rby |-> ScenarioBlocks]

ScenarioRegion ==
    GeoRegion(<<22, 16>>,
              [i \in 1..(ScenarioBlocks * ScenarioBlocks) |->
                 IF i = 10 * ScenarioBlocks + 10 + 1
                 THEN BlockComplex([c \in 1..(BLOCK_CELLS_X * BLOCK_CELLS_Y) |->
                                      Cell(-3450, 0)])
                 ELSE BlockFlat(-3450)],
              ScenarioDims)

sweepVars == <<scanVars, sse, login_client, game_client, geo_row>>

InitSweep ==
    /\ ScanInit
    /\ sse = Unused
    /\ login_client = Unused
    /\ game_client = Unused
    /\ geo_row = Unused
    /\ editor = NewEditor(ScenarioRegion)

\* POST /api/region/<filename>/unblock around the corner of block (10, 10)
Sweep ==
    /\ editor.step = "loaded"
    /\ \E cx \in 76..84, cy \in 76..84, radius \in 0..3 :
         LET r == api_unblock(editor.region, cx, cy, radius)
         IN  editor' = [editor EXCEPT
                          !.step = "unblocked", !.before = editor.region,
                          !.region = r.region, !.count = r.count, !.ok = TRUE,
                          !.req = [NoRequest EXCEPT !.op = "unblock",
                                     !.cx = cx, !.cy = cy, !.radius = radius],
                          !.edits = @ + 1]
    /\ UNCHANGED sweepVars

NextSweep == Sweep

SpecSweep == InitSweep /\ [][NextSweep]_vars

-----------------------------------------------------------------------------
(* l2d_parser.py : region_to_world_coords and world_to_region_coords, with  *)
(* the program's region of 2048 x 2048 cells                                *)

REGION_CELLS_X == 2048
REGION_CELLS_Y == 2048

\* the mutation that takes the tile origin of y for x and of x for y
region_to_world_swapped(region_x, region_y, cell_x, cell_y) ==
    <<((region_x - 10) * REGION_CELLS_X + cell_x) * 16 + -327680,
      ((region_y - 11) * REGION_CELLS_Y + cell_y) * 16 + -262144>>

\* the mutation that returns the centre of the cell, not its corner
region_to_world_centred(region_x, region_y, cell_x, cell_y) ==
    <<((region_x - 11) * REGION_CELLS_X + cell_x) * 16 + 8 + -327680,
      ((region_y - 10) * REGION_CELLS_Y + cell_y) * 16 + 8 + -262144>>

region_to_world_coords(region_x, region_y, cell_x, cell_y) ==
    <<((region_x - 11) * REGION_CELLS_X + cell_x) * 16 + -327680,
      ((region_y - 10) * REGION_CELLS_Y + cell_y) * 16 + -262144>>

\* division and remainder that round toward zero
trunc_div(a, b) == IF a >= 0 THEN a \div b ELSE -((-a) \div b)

trunc_rem(a, b) == a - b * trunc_div(a, b)

\* the mutation that rounds toward zero where the code uses // and %
world_to_region_truncating(world_x, world_y) ==
    LET geo_x == trunc_div(world_x + 327680, 16)
        geo_y == trunc_div(world_y + 262144, 16)
    IN  <<trunc_div(geo_x, REGION_CELLS_X) + 11,
          trunc_div(geo_y, REGION_CELLS_Y) + 10,
          trunc_rem(geo_x, REGION_CELLS_X),
          trunc_rem(geo_y, REGION_CELLS_Y)>>

\* // and % of Python are \div and % : floor division, remainder >= 0
world_to_region_coords(world_x, world_y) ==
    LET geo_x == (world_x + 327680) \div 16
        geo_y == (world_y + 262144) \div 16
    IN  <<geo_x \div REGION_CELLS_X + 11,
          geo_y \div REGION_CELLS_Y + 10,
          geo_x % REGION_CELLS_X,
          geo_y % REGION_CELLS_Y>>

\* regions on both sides of tile (11, 10), cells at both ends of the range
RegionCoords == {-1, 0, 10, 11, 16, 22, 23}

CellCoords == {0, 667, 1058, 1091, 1144, REGION_CELLS_X - 1}

WorldCoords == {-524288, -327681, -327680, -262145, -1, 0, 15, 16,
                82992, 83000, 148000}

coordVars == <<scanVars, sse, login_client, game_client, geo_row>>

InitCoords ==
    /\ ScanInit
    /\ sse = Unused
    /\ login_client = Unused
    /\ game_client = Unused
    /\ geo_row = Unused
    /\ editor = [step |-> "start", region |-> <<>>, world |-> <<>>,
                 back |-> <<>>]

\* region_to_world_coords(rx, ry, cx, cy)
RegionToWorld ==
    /\ editor.step = "start"
    /\ \E rx \in RegionCoords, ry \in RegionCoords,
          cx \in CellCoords, cy \in CellCoords :
         editor' = [editor EXCEPT
                      !.step = "world", !.region = <<rx, ry, cx, cy>>,
                      !.world = region_to_world_coords(rx, ry, cx, cy)]
    /\ UNCHANGED coordVars

\* world_to_region_coords of the world point just computed
WorldToRegion ==
    /\ editor.step = "world"
    /\ editor' = [editor EXCEPT
                    !.step = "back",
                    !.back = world_to_region_coords(editor.world[1],
                                                    editor.world[2])]
    /\ UNCHANGED coordVars

\* world_to_region_coords(wx, wy) of a world point given
Locate ==
    /\ editor.step = "start"
    /\ \E wx \in WorldCoords, wy \in WorldCoords :
         editor' = [editor EXCEPT
                      !.step = "located", !.world = <<wx, wy>>,
                      !.region = world_to_region_coords(wx, wy)]
    /\ UNCHANGED coordVars

NextCoords == RegionToWorld \/ WorldToRegion \/ Locate

SpecCoords == InitCoords /\ [][NextCoords]_vars

\* region_to_world_coords of the region and cell just located
WorldOfLocated ==
    /\ editor.step = "located"
    /\ editor' = [editor EXCEPT
                    !.step = "returned",
                    !.back = region_to_world_coords(editor.region[1],
                                                    editor.region[2],
                                                    editor.region[3],
                                                    editor.region[4])]
    /\ UNCHANGED coordVars

NextWorld == Locate \/ WorldOfLocated

\* the conversions from a world point to its cell and back
SpecWorld == InitCoords /\ [][NextWorld]_vars

-----------------------------------------------------------------------------
(* l2_crypto.py : LoginCrypt.encrypt up to the Blowfish call.  login_client *)
(* holds the payload and the padded, checksummed frame handed to Blowfish   *)

MaxPayload == 9

PayloadBytes == {0, 1, 255}

\* byte lane (0..3) of chk after the loop for i in range(offset, offset +
\* count, 4): chk ^= unpack_from("<I", data, i), the XOR of little-endian
\* words being the XOR of their bytes lane by lane
RECURSIVE checksum_lane(_, _, _, _)
checksum_lane(data, i, stop, lane) ==
    IF i >= stop THEN 0
    ELSE Xor(data[i + lane + 1], checksum_lane(data, i + 4, stop, lane))

\* append_checksum(data, offset, size): pack_into("<I", data, offset + count)
append_checksum(data, offset, size) ==
    LET count == size - 4
    IN  [i \in 1..Len(data) |->
           IF i > offset + count /\ i <= offset + count + 4
           THEN checksum_lane(data, offset, offset + count, i - (offset + count) - 1)
           ELSE data[i]]

\* b'\x00' * n
zeros(n) == [i \in 1..n |-> 0]

\* LoginCrypt.encrypt: data after extend and append_checksum
login_frame(data) ==
    LET pad_size  == IF Len(data) % 8 # 0 THEN 8 - (Len(data) % 8) ELSE 0
        total_pad == pad_size + 4
        total     == IF (Len(data) + total_pad) % 8 # 0
                     THEN total_pad + (8 - ((Len(data) + total_pad) % 8))
                     ELSE total_pad
        padded    == data \o zeros(total)
    IN  append_checksum(padded, 0, Len(padded))

frameVars == <<scanVars, sse, game_client, geo_row, editor>>

InitFrame ==
    /\ ScanInit
    /\ sse = Unused
    /\ game_client = Unused
    /\ geo_row = Unused
    /\ editor = Unused
    /\ login_client = [step |-> "building", payload |-> <<>>, frame |-> <<>>]

\* the packet builder appends one more byte to the payload
PayloadByte ==
    /\ login_client.step = "building"
    /\ Len(login_client.payload) < MaxPayload
    /\ \E b \in PayloadBytes :
         login_client' = [login_client EXCEPT !.payload = Append(@, b)]
    /\ UNCHANGED frameVars

\* LoginCrypt.encrypt(payload)
FramePayload ==
    /\ login_client.step = "building"
    /\ login_client' = [login_client EXCEPT
                          !.step = "framed",
                          !.frame = login_frame(login_client.payload)]
    /\ UNCHANGED frameVars

NextFrame == PayloadByte \/ FramePayload

SpecFrame == InitFrame /\ [][NextFrame]_vars

-----------------------------------------------------------------------------
(* ScanProgress: the registry operations called in any order, by workers,   *)
(* by discover_regions, by the dashboard's reset and by a new process, each *)
(* with the event it emits.  sse.last is the history of the last call: the  *)
(* registry and the store before it and how many events had been emitted   *)

MaxRegistryOps == 4

NoCall == [op |-> "none", key |-> NoKey, status |-> "", regions |-> EmptyMap,
           db_regions |-> EmptyMap, emitted |-> 0, n |-> 0]

\* the history of a call made now
CallOf(op, k, status) ==
    [op |-> op, key |-> k, status |-> status, regions |-> regions,
     db_regions |-> db_regions, emitted |-> Len(sse.emitted),
     n |-> sse.last.n + 1]

registryRest == <<workers, scan_cells, files, pc, stop_event, cur_region,
                  block_y, heights, exc, hist, pending0, used, login_client,
                  game_client, geo_row, editor>>

InitRegistry ==
    /\ ScanInit
    /\ sse = [subscribers |-> <<>>, queues |-> EmptyMap, event_log |-> <<>>,
              emitted |-> <<>>, placed |-> EmptyMap, since |-> EmptyMap,
              transitions |-> <<>>, last |-> NoCall]
    /\ login_client = Unused
    /\ game_client = Unused
    /\ geo_row = Unused
    /\ editor = Unused

CanCall == sse.last.n < MaxRegistryOps

\* discover_regions: one add_region call; no event
RegAdd(k) ==
    /\ CanCall
    /\ add_region(k, REGION_BLOCKS)
    /\ sse' = [sse EXCEPT !.last = CallOf("add", k, "")]
    /\ UNCHANGED registryRest

\* get_next_region(worker_name): the claim and its region_update, or None
RegClaim(w) ==
    /\ CanCall
    /\ \E k \in Keys \cup {NoKey} :
         /\ get_next_region(w, k)
         /\ sse' = IF k = NoKey
                   THEN [sse EXCEPT !.last = CallOf("claim", k, "")]
                   ELSE [push_event(sse, Event("region_update", k, SCANNING))
                           EXCEPT !.last = CallOf("claim", k, SCANNING)]
    /\ UNCHANGED registryRest

\* release_region(region_key, status, error): on an unknown key it returns
\* before _persist_region and _push_event
RegRelease(k, status, error) ==
    /\ CanCall
    /\ release_region(k, status, error)
    /\ sse' = IF k \in DOMAIN regions
              THEN [push_event(sse, Event("region_update", k, status))
                      EXCEPT !.last = CallOf("release", k, status)]
              ELSE [sse EXCEPT !.last = CallOf("release", k, status)]
    /\ UNCHANGED registryRest

\* reset(): both tables and the dict cleared, then the log event
RegReset ==
    /\ CanCall
    /\ regions' = EmptyMap
    /\ db_regions' = EmptyMap
    /\ sse' = [push_event(sse, Event("log", NoKey, ""))
                 EXCEPT !.last = CallOf("reset", NoKey, "")]
    /\ UNCHANGED registryRest

\* a new process: __init__ runs _load_from_db; its event log and its
\* subscriber list start empty
RegReload ==
    /\ CanCall
    /\ regions' = db_regions
    /\ sse' = [sse EXCEPT !.event_log = <<>>, !.subscribers = <<>>,
                          !.last = CallOf("reload", NoKey, "")]
    /\ UNCHANGED <<db_regions, registryRest>>

NextRegistry ==
    \/ \E k \in Keys : RegAdd(k)
    \/ \E w \in Workers : RegClaim(w)
    \/ \E k \in Keys, status \in {PENDING, COMPLETE, ERROR},
          error \in {"", TIMEOUT} : RegRelease(k, status, error)
    \/ RegReset
    \/ RegReload

SpecRegistry == InitRegistry /\ [][NextRegistry]_vars

-----------------------------------------------------------------------------
(* ScanWorker._scan_region and the packet loop: the scan_geo exchange row   *)
(* by row.  game_client holds the queues the handler fills; geo_row holds   *)
(* the worker's position, the row it scans, the request it sent and, for    *)
(* every row it stored, the fields of the response the data came from       *)

\* the region being scanned and another one the server also knows
ScannedRegion == <<22, 16>>
OtherRegion   == <<22, 17>>

\* the CreatureSay texts the server may send: "GEODATA|rx|ry|by|<base64>"
\* for either region and any row, a GEODATA_CHECK reply, a system message
SaidTexts ==
    { [head |-> "GEODATA|", rx |-> r[1], ry |-> r[2], by |-> by] :
        r \in {ScannedRegion, OtherRegion}, by \in 0..(REGION_BLOCKS_Y - 1) }
    \cup { [head |-> "GEODATA_CHECK|", rx |-> ScannedRegion[1],
            ry |-> ScannedRegion[2], by |-> 0],
           [head |-> "Welcome", rx |-> 0, ry |-> 0, by |-> 0] }

scanRowsVars == <<scanVars, sse, login_client, editor>>

InitScanRows ==
    /\ ScanInit
    /\ sse = Unused
    /\ login_client = Unused
    /\ editor = Unused
    /\ game_client = [geodata_queue |-> <<>>, sys_messages |-> <<>>,
                      said |-> <<>>, taken |-> <<>>]
    /\ geo_row = [step |-> "drain", block_y |-> 0, sent |-> <<>>,
                  rows |-> EmptyMap, exc |-> ""]

\* the packet loop receives a CreatureSay and dispatches it
ServerSays ==
    /\ Len(game_client.said) < MaxSay
    /\ \E text \in SaidTexts :
         game_client' = handle_creature_say(game_client, text)
    /\ UNCHANGED <<geo_row, scanRowsVars>>

\* self._drain_geodata_queue() at the start of _scan_region
DrainQueue ==
    /\ geo_row.step = "drain"
    /\ game_client' = [game_client EXCEPT !.geodata_queue = <<>>]
    /\ geo_row' = [geo_row EXCEPT !.step = "send"]
    /\ UNCHANGED scanRowsVars

\* send_admin_command(f"scan_geo {rx} {ry} {block_y}")
SendScanGeo ==
    /\ geo_row.step = "send"
    /\ geo_row' = [geo_row EXCEPT
                     !.step = "wait",
                     !.sent = <<ScannedRegion[1], ScannedRegion[2],
                                geo_row.block_y>>]
    /\ UNCHANGED <<game_client, scanRowsVars>>

\* response = geodata_queue.get(timeout=10.0); the checks of parts; the row
\* stored under block_y
TakeResponse ==
    /\ geo_row.step = "wait"
    /\ game_client.geodata_queue # <<>>
    /\ LET response == Head(game_client.geodata_queue)
       IN  /\ game_client' = [game_client EXCEPT
                                !.geodata_queue = Tail(@),
                                !.taken = Append(@, response)]
           /\ geo_row' =
                IF response.head # "GEODATA|"
                THEN [geo_row EXCEPT !.step = "raised", !.exc = FORMAT]
                ELSE [geo_row EXCEPT
                        !.rows = (geo_row.block_y :> response) @@ @,
                        !.block_y = @ + 1,
                        !.step = IF geo_row.block_y + 1 = REGION_BLOCKS_Y
                                 THEN "build" ELSE "send"]
    /\ UNCHANGED scanRowsVars

\* queue.Empty after 10 seconds: RuntimeError("Timeout waiting ...")
ResponseTimeout ==
    /\ geo_row.step = "wait"
    /\ game_client.geodata_queue = <<>>
    /\ geo_row' = [geo_row EXCEPT !.step = "raised", !.exc = TIMEOUT]
    /\ UNCHANGED <<game_client, scanRowsVars>>

NextScanRows ==
    ServerSays \/ DrainQueue \/ SendScanGeo \/ TakeResponse \/ ResponseTimeout

SpecScanRows == InitScanRows /\ [][NextScanRows]_vars

-----------------------------------------------------------------------------
(* The workers of a process started on a store that already holds regions,  *)
(* with a server that answers every exchange: only the steps of _run, each  *)
(* worker thread scheduled again and again                                  *)

\* the rows a store can hold for a key when the previous process died: not
\* yet claimed, claimed by a worker of that process, complete
StoredStates ==
    LET fresh == RegionState(REGION_BLOCKS)
    IN  {fresh, claimed(fresh, Holder),
         released(claimed(fresh, Holder), COMPLETE, "")}

\* ScanProgress.__init__ with _load_from_db on such a store; no event from
\* outside is left to happen
InitRehydrate ==
    /\ regions \in [Keys -> StoredStates]
    /\ db_regions = regions
    /\ workers = EmptyMap
    /\ scan_cells = EmptyMap
    /\ files = [k \in Keys |->
                  IF regions[k].status = COMPLETE
                  THEN FileOf(build_region(store_row(EmptyMap, k, 0)))
                  ELSE NoFile]
    /\ NewThreads(pc, stop_event, cur_region, block_y, heights, exc, hist)
    /\ pending0 = {}
    /\ used = MaxEvents
    /\ sse = Unused
    /\ login_client = Unused
    /\ game_client = Unused
    /\ geo_row = Unused
    /\ editor = Unused

\* the steps of a worker thread that nobody stops
SteadyStep(w) ==
    \/ Start(w) \/ LoopCheck(w) \/ Connect(w) \/ Claim(w) \/ ScanRow(w)
    \/ WriteOpen(w) \/ WriteData(w) \/ Record(w) \/ Complete(w)

NextRehydrate == \E w \in Workers : SteadyStep(w)

SpecRehydrate ==
    /\ InitRehydrate
    /\ [][NextRehydrate]_vars
    /\ \A w \in Workers : WF_vars(SteadyStep(w))

-----------------------------------------------------------------------------
(* The same workers when the scans of one region fail every time: the       *)
(* server never answers scan_geo for the first key of the sorted order      *)

Unscannable == {k \in Keys : \A j \in Keys : k <= j}

\* all regions registered and PENDING, no event from outside left to happen
InitStarve ==
    /\ regions = [k \in Keys |-> RegionState(REGION_BLOCKS)]
    /\ db_regions = regions
    /\ workers = EmptyMap
    /\ scan_cells = EmptyMap
    /\ files = [k \in Keys |-> NoFile]
    /\ NewThreads(pc, stop_event, cur_region, block_y, heights, exc, hist)
    /\ pending0 = {}
    /\ used = MaxEvents
    /\ sse = Unused
    /\ login_client = Unused
    /\ game_client = Unused
    /\ geo_row = Unused
    /\ editor = Unused

\* geodata_queue.get(timeout=10.0) raises queue.Empty: RuntimeError
ScanTimesOut(w) ==
    /\ pc[w] = "scan"
    /\ ~stop_event[w]
    /\ cur_region[w] \in Unscannable
    /\ scan_raises(w, TIMEOUT)
    /\ UNCHANGED <<regions, workers, db_regions, scan_cells, files, stop_event,
                   cur_region, block_y, heights, auxVars, used>>

StarveStep(w) ==
    \/ cur_region[w] \notin Unscannable /\ SteadyStep(w)
    \/ ScanTimesOut(w)
    \/ ReleaseFail(w)

NextStarve == \E w \in Workers : StarveStep(w)

SpecStarve ==
    /\ InitStarve
    /\ [][NextStarve]_vars
    /\ \A w \in Workers : WF_vars(StarveStep(w))

-----------------------------------------------------------------------------
(* One GameCrypt shared by two threads: the worker thread in send_packet    *)
(* and the packet-loop thread in recv_packet, interleaved between the turns *)
(* of the loops of encrypt and decrypt and inside _advance_key              *)

MaxThreadPackets == 2

\* packet bodies that stop short of the counter and that reach into it
ThreadBodies == {b \in Bodies : Len(b) <= 10}

IdleCall == [step |-> "idle", data |-> <<>>, buf |-> <<>>, i |-> 0,
             temp |-> 0, old |-> <<>>]

\* the call has copied its argument and found the cipher enabled or not
CallOn(gc, data) ==
    [IdleCall EXCEPT !.step = IF ~gc.enabled THEN "return"
                              ELSE IF data = <<>> THEN "unpack" ELSE "loop",
                     !.data = data, !.buf = data, !.i = 1]

AfterTurn(c) == IF c.i >= Len(c.buf) THEN "unpack" ELSE "loop"

\* one turn of the loop of encrypt, on the key as it is now
encrypt_turn(gc, c) ==
    LET t == Xor(Xor(c.buf[c.i], KeyByte(gc.out_key, c.i)), c.temp)
    IN  [c EXCEPT !.buf[c.i] = t, !.temp = t, !.i = @ + 1, !.step = AfterTurn(c)]

\* one turn of the loop of decrypt, on the key as it is now
decrypt_turn(gc, c) ==
    LET temp2 == c.buf[c.i]
    IN  [c EXCEPT !.buf[c.i] = Xor(Xor(temp2, KeyByte(gc.in_key, c.i)), c.temp),
                  !.temp = temp2, !.i = @ + 1, !.step = AfterTurn(c)]

\* struct.unpack_from("<I", key, 8) and struct.pack_into("<I", key, 8, new)
unpack_counter(key) == SubSeq(key, 9, 12)
pack_counter(key, old, size) ==
    SubSeq(key, 1, 8) \o add_le(old, size) \o SubSeq(key, 13, 16)

\* the mutation of decrypt that advances the counter of the outbound key
decrypt_advance_outbound(gc, old, size) ==
    [gc EXCEPT !.out_key = pack_counter(gc.out_key, old, size)]

\* self._advance_key(self._in_key, len(data)) after the read of old
decrypt_advance(gc, old, size) ==
    [gc EXCEPT !.in_key = pack_counter(gc.in_key, old, size)]

\* self._advance_key(self._out_key, len(data)) after the read of old
encrypt_advance(gc, old, size) ==
    [gc EXCEPT !.out_key = pack_counter(gc.out_key, old, size)]

\* the calls made so far, one after the other on one cipher
RECURSIVE Sequentially(_, _)
Sequentially(gc, calls) ==
    IF calls = <<>> THEN [crypt |-> gc, rets |-> <<>>]
    ELSE LET r    == IF Head(calls).op = "encrypt"
                     THEN encrypt(gc, Head(calls).data)
                     ELSE decrypt(gc, Head(calls).data)
             rest == Sequentially(r.crypt, Tail(calls))
         IN  [crypt |-> rest.crypt, rets |-> <<r.data>> \o rest.rets]

\* GameClient after _handle_key_packet: GameCrypt(xor_key) with _enabled set,
\* then start_packet_loop
InitThreads ==
    /\ ScanInit
    /\ sse = Unused
    /\ login_client = Unused
    /\ geo_row = Unused
    /\ editor = Unused
    /\ \E key \in XorKeys :
         game_client =
           [crypt   |-> install_crypt(key),
            start   |-> install_crypt(key),
            send    |-> IdleCall,
            recv    |-> IdleCall,
            done    |-> <<>>,
            sends   |-> 0,
            recvs   |-> 0,
            overlap |-> FALSE]

Overlapping(other) == game_client.overlap \/ other.step # "idle"

\* the worker thread enters send_packet: data = bytearray(data), encrypt
SendPacket ==
    /\ game_client.send.step = "idle"
    /\ game_client.sends < MaxThreadPackets
    /\ \E data \in ThreadBodies :
         game_client' =
           [game_client EXCEPT
              !.send = CallOn(game_client.crypt, data),
              !.sends = @ + 1,
              !.overlap = Overlapping(game_client.recv)]
    /\ UNCHANGED cryptVars

EncryptTurn ==
    /\ game_client.send.step = "loop"
    /\ game_client' =
         [game_client EXCEPT
            !.send = encrypt_turn(game_client.crypt, game_client.send),
            !.overlap = Overlapping(game_client.recv)]
    /\ UNCHANGED cryptVars

EncryptUnpack ==
    /\ game_client.send.step = "unpack"
    /\ game_client' =
         [game_client EXCEPT
            !.send.old = unpack_counter(game_client.crypt.out_key),
            !.send.step = "pack",
            !.overlap = Overlapping(game_client.recv)]
    /\ UNCHANGED cryptVars

\* pack_into, return data, sendall
EncryptPack ==
    /\ game_client.send.step = "pack"
    /\ LET c == game_client.send
       IN  game_client' =
             [game_client EXCEPT
                !.crypt = encrypt_advance(game_client.crypt, c.old, Len(c.data)),
                !.send = IdleCall,
                !.done = Append(@, [op |-> "encrypt", data |-> c.data,
                                    ret |-> c.buf]),
                !.overlap = Overlapping(game_client.recv)]
    /\ UNCHANGED cryptVars

\* the packet-loop thread has read a packet body and enters decrypt
RecvPacket ==
    /\ game_client.recv.step = "idle"
    /\ game_client.recvs < MaxThreadPackets
    /\ \E data \in ThreadBodies :
         game_client' =
           [game_client EXCEPT
              !.recv = CallOn(game_client.crypt, data),
              !.recvs = @ + 1,
              !.overlap = Overlapping(game_client.send)]
    /\ UNCHANGED cryptVars

DecryptTurn ==
    /\ game_client.recv.step = "loop"
    /\ game_client' =
         [game_client EXCEPT
            !.recv = decrypt_turn(game_client.crypt, game_client.recv),
            !.overlap = Overlapping(game_client.send)]
    /\ UNCHANGED cryptVars

DecryptUnpack ==
    /\ game_client.recv.step = "unpack"
    /\ game_client' =
         [game_client EXCEPT
            !.recv.old = unpack_counter(game_client.crypt.in_key),
            !.recv.step = "pack",
            !.overlap = Overlapping(game_client.send)]
    /\ UNCHANGED cryptVars

\* pack_into, return data to _packet_loop
DecryptPack ==
    /\ game_client.recv.step = "pack"
    /\ LET c == game_client.recv
       IN  game_client' =
             [game_client EXCEPT
                !.crypt = decrypt_advance(game_client.crypt, c.old, Len(c.data)),
                !.recv = IdleCall,
                !.done = Append(@, [op |-> "decrypt", data |-> c.data,
                                    ret |-> c.buf]),
                !.overlap = Overlapping(game_client.send)]
    /\ UNCHANGED cryptVars

NextThreads ==
    \/ SendPacket \/ EncryptTurn \/ EncryptUnpack \/ EncryptPack
    \/ RecvPacket \/ DecryptTurn \/ DecryptUnpack \/ DecryptPack

SpecThreads == InitThreads /\ [][NextThreads]_vars

-----------------------------------------------------------------------------
(* ScanManager.bootstrap called from the threads that /api/bootstrap starts *)

MaxAccounts   == 2
MaxBootstraps == 3

ZeroCounts == [created |-> 0, failed |-> 0, promoted |-> 0]
NoReturn   == [created |-> -1, failed |-> -1, promoted |-> -1]

NoJob == [pc |-> "idle", num |-> 0, promote |-> FALSE, made |-> 0,
          created |-> 0, failed |-> 0, overlapped |-> FALSE, ret |-> NoReturn]

\* the mutation of the finally block that clears the flag on a return only
bootstrap_finally_on_return(outcome) == outcome = "raising"

\* finally: with self._bootstrap_lock: self._bootstrap_running = False
bootstrap_finally(outcome) == FALSE

bootstrapRest == <<scanVars, login_client, game_client, geo_row, editor>>

InitBootstrap ==
    /\ ScanInit
    /\ login_client = Unused
    /\ game_client = Unused
    /\ geo_row = Unused
    /\ editor = Unused
    /\ sse = [bootstrap_running |-> FALSE,
              call  |-> [c \in Callers |-> NoJob],
              calls |-> 0,
              warns |-> 0]

\* the with block at the head of bootstrap(num, promote)
BootstrapEnter(c) ==
    /\ sse.call[c].pc = "idle"
    /\ sse.calls < MaxBootstraps
    /\ \E num \in 0..MaxAccounts, promote \in BOOLEAN :
         IF sse.bootstrap_running
         THEN sse' = [sse EXCEPT
                        !.call[c] = [NoJob EXCEPT !.pc = "returned",
                                                  !.num = num,
                                                  !.promote = promote,
                                                  !.overlapped = TRUE,
                                                  !.ret = ZeroCounts],
                        !.calls = @ + 1,
                        !.warns = @ + 1]
         ELSE sse' = [sse EXCEPT
                        !.bootstrap_running = TRUE,
                        !.call[c] = [NoJob EXCEPT !.pc = "job",
                                                  !.num = num,
                                                  !.promote = promote],
                        !.calls = @ + 1]
    /\ UNCHANGED bootstrapRest

\* _do_bootstrap with num = 0: names[0] raises IndexError
BootstrapRaises(c) ==
    /\ sse.call[c].pc = "job"
    /\ sse.call[c].num = 0
    /\ sse' = [sse EXCEPT !.call[c].pc = "raising"]
    /\ UNCHANGED bootstrapRest

\* one turn of the loop over names: full_connect_or_create gives a client,
\* gives None or raises
CreateAccount(c) ==
    /\ sse.call[c].pc = "job"
    /\ sse.call[c].made < sse.call[c].num
    /\ \E ok \in BOOLEAN :
         sse' = [sse EXCEPT
                   !.call[c].made = @ + 1,
                   !.call[c].created = IF ok THEN @ + 1 ELSE @,
                   !.call[c].failed = IF ok THEN @ ELSE @ + 1]
    /\ UNCHANGED bootstrapRest

\* after the loop: _promote_to_gm promotes all names or none, and the counts
\* are the value of the return statement
BootstrapDone(c) ==
    /\ sse.call[c].pc = "job"
    /\ sse.call[c].num > 0
    /\ sse.call[c].made = sse.call[c].num
    /\ \E promoted \in
           IF sse.call[c].promote /\ sse.call[c].created > 0
           THEN {0, sse.call[c].num} ELSE {0} :
         sse' = [sse EXCEPT
                   !.call[c].pc = "returning",
                   !.call[c].ret = [created  |-> sse.call[c].created,
                                    failed   |-> sse.call[c].failed,
                                    promoted |-> promoted]]
    /\ UNCHANGED bootstrapRest

\* the finally block, then the return or the exception reaches the caller
BootstrapFinally(c) ==
    /\ sse.call[c].pc \in {"returning", "raising"}
    /\ sse' = [sse EXCEPT
                 !.bootstrap_running = bootstrap_finally(sse.call[c].pc),
                 !.call[c].pc = IF @ = "returning" THEN "returned" ELSE "raised"]
    /\ UNCHANGED bootstrapRest

\* the thread of the request ends; a later request starts another
BootstrapThreadEnds(c) ==
    /\ sse.call[c].pc \in {"returned", "raised"}
    /\ sse' = [sse EXCEPT !.call[c] = NoJob]
    /\ UNCHANGED bootstrapRest

NextBootstrap ==
    \E c \in Callers :
        \/ BootstrapEnter(c)
        \/ BootstrapRaises(c)
        \/ CreateAccount(c)
        \/ BootstrapDone(c)
        \/ BootstrapFinally(c)
        \/ BootstrapThreadEnds(c)

SpecBootstrap == InitBootstrap /\ [][NextBootstrap]_vars

-----------------------------------------------------------------------------
(* The worker pool of ScanManager: start, stop, add_worker, remove_worker.  *)
(* A worker name is the sequence of digits that follows the account prefix  *)

MaxPoolCalls == 4
WideTotal    == 100

RECURSIVE digits(_)
digits(n) == IF n < 10 THEN <<n>> ELSE digits(n \div 10) \o <<n % 10>>

RECURSIVE zfill(_, _)
zfill(ds, width) == IF Len(ds) >= width THEN ds ELSE zfill(<<0>> \o ds, width)

\* f"{prefix}{index:0{width}d}" with width = 3 if total >= 100 else 2
worker_name(index, total) ==
    zfill(digits(index), IF total >= WideTotal THEN 3 ELSE 2)

Max(a, b) == IF a >= b THEN a ELSE b

\* name = "" is the default of add_worker and remove_worker
NoName == <<>>

\* add_worker(name): the pool and the target count after the call
add_worker(m, name) ==
    LET idx   == Cardinality(m.workers) + 1
        total == Max(m.target_count, idx)
        n     == IF name = NoName THEN worker_name(idx, total) ELSE name
    IN  IF n \in m.workers THEN m
        ELSE [m EXCEPT !.workers = @ \cup {n},
                       !.target_count = Max(@, Cardinality(m.workers) + 1)]

\* remove_worker(name): without a name sorted(self._workers.keys())[-1], the
\* last name in the order of strings
LastName(names) ==
    CHOOSE n \in names :
        \A o \in names :
            \/ o = n
            \/ \E i \in 1..Len(n) :
                 /\ i <= Len(o) => o[i] < n[i]
                 /\ \A j \in 1..(i - 1) : j <= Len(o) /\ o[j] = n[j]
            \/ Len(o) < Len(n) /\ \A j \in 1..Len(o) : o[j] = n[j]

remove_worker(m, name) ==
    IF name = NoName
    THEN IF m.workers = {} THEN m
         ELSE [m EXCEPT !.workers = @ \ {LastName(m.workers)}]
    ELSE [m EXCEPT !.workers = @ \ {name}]

\* the loop of start(num_workers) from worker i on
RECURSIVE start_workers(_, _, _)
start_workers(m, i, num_workers) ==
    IF i > num_workers \/ m.target_count < 0 THEN m
    ELSE start_workers(add_worker(m, worker_name(i, num_workers)),
                       i + 1, num_workers)

\* the names the dashboard passes: of the first workers, in both widths
PoolNames ==
    {worker_name(i, total) : i \in 1..3, total \in {1, WideTotal}}

poolRest == <<scanVars, login_client, game_client, geo_row, editor>>

NoPoolCall == [op |-> "none", name |-> NoName, before |-> {}, after |-> {}]

\* ScanManager.__init__
InitPool ==
    /\ ScanInit
    /\ login_client = Unused
    /\ game_client = Unused
    /\ geo_row = Unused
    /\ editor = Unused
    /\ sse = [workers |-> {}, target_count |-> 0, running |-> FALSE,
              calls |-> 0, last |-> NoPoolCall]

PoolCall(m, op, name) ==
    [m EXCEPT !.calls = sse.calls + 1,
              !.last = [op |-> op, name |-> name,
                        before |-> sse.workers, after |-> m.workers]]

StartManager(num_workers) ==
    /\ sse.calls < MaxPoolCalls
    /\ sse' = PoolCall(start_workers([sse EXCEPT !.running = TRUE,
                                                 !.target_count = num_workers],
                                     1, num_workers),
                       "start", NoName)
    /\ UNCHANGED poolRest

StopManager ==
    /\ sse.calls < MaxPoolCalls
    /\ sse' = PoolCall([sse EXCEPT !.running = FALSE, !.workers = {}],
                       "stop", NoName)
    /\ UNCHANGED poolRest

AddWorker(name) ==
    /\ sse.calls < MaxPoolCalls
    /\ sse' = PoolCall(add_worker(sse, name), "add_worker", name)
    /\ UNCHANGED poolRest

RemoveWorker(name) ==
    /\ sse.calls < MaxPoolCalls
    /\ sse' = PoolCall(remove_worker(sse, name), "remove_worker", name)
    /\ UNCHANGED poolRest

NextPool ==
    \/ \E num_workers \in {1, 2, WideTotal} : StartManager(num_workers)
    \/ StopManager
    \/ \E name \in PoolNames \cup {NoName} : AddWorker(name)
    \/ \E name \in PoolNames \cup {NoName} : RemoveWorker(name)

SpecPool == InitPool /\ [][NextPool]_vars

-----------------------------------------------------------------------------
(* Properties *)

Min(a, b) == IF a <= b THEN a ELSE b

\* the callers of a contention run that were handed a region
Served == {c \in DOMAIN pc : pc[c] = "returned" /\ cur_region[c] # NoKey}

\* C1: get_next_region is atomic.  Of N concurrent callers against M PENDING
\* regions, every caller that was handed a region got one that was PENDING,
\* is now SCANNING and names that caller as assigned_worker; no two callers
\* got the same region; and when all calls have returned exactly min(N, M)
\* of them returned a region and the others returned none.
C1_AtomicClaim ==
    /\ \A c \in Served :
         /\ cur_region[c] \in pending0
         /\ regions[cur_region[c]].status = SCANNING
         /\ regions[cur_region[c]].assigned_worker = c
    /\ \A c, d \in Served : c # d => cur_region[c] # cur_region[d]
    /\ (\A c \in DOMAIN pc : pc[c] = "returned") =>
         Cardinality(Served) =
            Min(Cardinality(DOMAIN pc), Cardinality(pending0))

\* more callers than PENDING regions, all returned: some served, some not
C1_Contended ==
    /\ \A c \in DOMAIN pc : pc[c] = "returned"
    /\ Cardinality(Served) >= 2
    /\ Cardinality(DOMAIN pc) > Cardinality(Served)

\* C2: no two workers ever hold the same region concurrently: at most one
\* worker is between its claim of a key and its release of that key.
C2_NoTwoHolders ==
    \A w1, w2 \in Workers :
        (w1 # w2 /\ cur_region[w1] # NoKey) => cur_region[w1] # cur_region[w2]

\* the status changes the lifecycle allows
Lifecycle ==
    {<<PENDING, SCANNING>>, <<SCANNING, COMPLETE>>, <<SCANNING, ERROR>>,
     <<SCANNING, PENDING>>}

\* C3: the status of a tracked region changes only PENDING -> SCANNING,
\* SCANNING -> COMPLETE, SCANNING -> ERROR or SCANNING -> PENDING; a COMPLETE
\* region never changes and a PENDING one never becomes COMPLETE directly.
C3_LifecycleOnly ==
    [][\A k \in DOMAIN regions \cap DOMAIN regions' :
          regions'[k].status # regions[k].status =>
              <<regions[k].status, regions'[k].status>> \in Lifecycle]_vars

\* C4: once a worker that was asked to stop has status STOPPED, no region is
\* SCANNING with that worker as assigned_worker: what it held was released.
C4_StoppedHoldsNothing ==
    \A w \in DOMAIN workers :
        workers[w] = W_STOPPED =>
            \A k \in DOMAIN regions :
                ~(regions[k].status = SCANNING /\ regions[k].assigned_worker = w)

\* the failures of the scan_geo exchange
ExchangeFailures == {TIMEOUT, FORMAT, SIZE}

C6_BackoffBeforeReconnect ==
    \A w \in Workers : pc[w] = "connecting" => ~hist[w].scan_failed

\* C7 as stated: after LoginFail or PlayFail the worker makes no further
\* connection attempt.
C7_RejectedNeverRetries ==
    [][\A w \in Workers :
          (hist[w].connect \in Rejected /\ pc[w] # "connecting") =>
              pc'[w] # "connecting"]_vars

\* C7: a connection rejected with LoginFail or PlayFail sets the worker's
\* status to ERROR and sends the worker into the 5-second wait; after the
\* wait the worker is back at the loop test, and unless it has been stopped
\* it makes the next connection attempt.
C7_RejectedBacksOff ==
    [][\A w \in Workers :
          /\ (pc[w] = "connecting" /\ pc'[w] # "connecting"
                  /\ hist'[w].connect \in Rejected) =>
                /\ pc'[w] = "backoff"
                /\ w \in DOMAIN workers => workers'[w] = W_ERROR
          /\ (pc[w] = "backoff" /\ hist[w].connect \in Rejected
                  /\ pc'[w] # "backoff") => pc'[w] \in {"loop", "new"}
          /\ (pc[w] = "loop" /\ hist[w].connect \in Rejected
                  /\ ~stop_event[w] /\ pc'[w] # "loop") =>
                pc'[w] \in {"connecting", "new"}]_vars

\* a worker is connecting again after the server rejected its last attempt
C7_RetryAfterReject ==
    \E w \in Workers : pc[w] = "connecting" /\ hist[w].connect \in Rejected

\* C8: when the write of the file fails, the release leaves the region in
\* status ERROR.
C8_WriteFailureIsError ==
    [][\A w \in Workers :
          (pc[w] = "fail" /\ exc[w] = WRITE /\ pc'[w] = "loop"
                /\ cur_region[w] \in DOMAIN regions) =>
              regions'[cur_region[w]].status = ERROR]_vars

\* the file a complete scan of region k writes
ScannedFile(k) ==
    FileOf([i \in 1..REGION_BLOCKS |->
              Terrain(k, (i - 1) \div REGION_BLOCKS_Y, (i - 1) % REGION_BLOCKS_Y)])

\* C9: in every reachable state a COMPLETE region has its output file, with
\* the scanned height of block (bx, by) at index bx*REGION_BLOCKS_Y + by, and
\* its samples in scan_cells.
C9_CompleteHasOutput ==
    \A k \in DOMAIN regions :
        regions[k].status = COMPLETE =>
            /\ files[k] = ScannedFile(k)
            /\ \A bx \in 0..(REGION_BLOCKS_X - 1), by \in 0..(REGION_BLOCKS_Y - 1) :
                 /\ <<k, bx, by>> \in DOMAIN scan_cells
                 /\ scan_cells[<<k, bx, by>>] = Terrain(k, bx, by)

\* C10: the file at the final path is absent or complete, never partial.
C10_NeverPartialFile ==
    \A k \in Keys : files[k].exists => Len(files[k].blocks) = REGION_BLOCKS

\* C11: between registry operations the persisted row of every key equals
\* the in-memory region, field by field, and no row exists for an untracked
\* key; hence a restart, which loads the rows, rehydrates for every region a
\* status that was committed.
C11_StoreMatchesMemory ==
    /\ DOMAIN db_regions = DOMAIN regions
    /\ \A k \in DOMAIN regions :
         /\ db_regions[k].status = regions[k].status
         /\ db_regions[k].assigned_worker = regions[k].assigned_worker
         /\ db_regions[k].started_at = regions[k].started_at
         /\ db_regions[k].completed_at = regions[k].completed_at
         /\ db_regions[k].scanned_cells = regions[k].scanned_cells
         /\ db_regions[k].error = regions[k].error

\* a restart has rehydrated a region that was persisted as SCANNING
C11_Rehydrated ==
    /\ \A w \in Workers : pc[w] = "new"
    /\ \E k \in DOMAIN regions :
         /\ regions[k].status = SCANNING
         /\ db_regions[k] = regions[k]

\* the region_update events among a run of events, as <<region, status>>
RegionUpdates(evs) ==
    LET up == SelectSeq(evs, LAMBDA ev : ev.type = "region_update")
    IN  [i \in 1..Len(up) |-> <<up[i].region, up[i].status>>]

\* C12: for every queue that ever subscribed, the events placed in it are the
\* events emitted after it subscribed, in emission order and without a gap,
\* up to the last one placed; the queue holds, in that order, the ones not
\* yet taken; and the region_update events were emitted in the order of the
\* status transitions.
C12_EmissionOrder ==
    /\ \A q \in DOMAIN sse.queues :
         /\ sse.since[q] + Len(sse.placed[q]) <= Len(sse.emitted)
         /\ sse.placed[q] = SubSeq(sse.emitted, sse.since[q] + 1,
                                   sse.since[q] + Len(sse.placed[q]))
         /\ Len(sse.queues[q]) <= Len(sse.placed[q])
         /\ sse.queues[q] =
              SubSeq(sse.placed[q],
                     Len(sse.placed[q]) - Len(sse.queues[q]) + 1,
                     Len(sse.placed[q]))
         /\ q \in SubSet(sse) =>
              sse.since[q] + Len(sse.placed[q]) = Len(sse.emitted)
    /\ RegionUpdates(sse.emitted) = sse.transitions

\* a queue that subscribed after the first emission holds two later events,
\* one of them a region_update
C12_LateSubscriber ==
    \E q \in DOMAIN sse.queues :
        /\ sse.since[q] > 0
        /\ Len(sse.queues[q]) = 2
        /\ \E i \in 1..2 : sse.queues[q][i].type = "region_update"

\* C13: an emission is one step that always completes, and in it every
\* subscribed queue that is full gets nothing and leaves the subscriber list,
\* while every subscribed queue with room gets the event at its tail and
\* stays subscribed.
C13_DropOnFull ==
    [][Len(sse'.emitted) = Len(sse.emitted) + 1 =>
          \A q \in SubSet(sse) :
              IF Len(sse.queues[q]) >= QueueCap
              THEN /\ sse'.queues[q] = sse.queues[q]
                   /\ q \notin SubSet(sse')
              ELSE /\ sse'.queues[q] =
                        Append(sse.queues[q], sse'.emitted[Len(sse'.emitted)])
                   /\ q \in SubSet(sse')]_vars

\* one queue was full and has been dropped, another got the event it missed
C13_OneDropped ==
    \E q1, q2 \in DOMAIN sse.queues :
        /\ q1 \notin SubSet(sse)
        /\ Len(sse.queues[q1]) = QueueCap
        /\ q2 \in SubSet(sse)
        /\ sse.since[q2] <= sse.since[q1]
        /\ Len(sse.placed[q2]) > Len(sse.placed[q1])
        /\ sse.queues[q2] # <<>>

\* the replies the handshake awaits and the requests it sends, in order
ExpectedReplies ==
    <<OP_INIT, OP_GG_AUTH, OP_LOGIN_OK, OP_SERVER_LIST, OP_PLAY_OK>>
Requests == <<REQ_AUTH_GG, REQ_AUTH_LOGIN, REQ_SERVER_LIST, REQ_SERVER_LOGIN>>

\* C14: the client sends AuthGameGuard, RequestAuthLogin, RequestServerList
\* and RequestServerLogin in that order, the i-th only after the i-th
\* expected reply (Init, GGAuth, LoginOk, ServerList) was received; it
\* yields play keys only after PlayOk; and a reply with any other opcode is
\* the last one it reads: nothing is sent after it, the login has failed
\* and the socket is closed.
C14_StrictHandshake ==
    LET lc == login_client
        n  == Len(lc.sent)
    IN  /\ n <= Len(Requests)
        /\ Len(lc.got) <= n + 1
        /\ \A i \in 1..n :
             /\ lc.sent[i][1] = Requests[i]
             /\ i <= Len(lc.got)
             /\ lc.got[i].op = ExpectedReplies[i]
        /\ (lc.state = "done" \/ lc.play_ok1 # 0) =>
             /\ n = Len(Requests)
             /\ Len(lc.got) = Len(ExpectedReplies)
             /\ lc.got[Len(lc.got)].op = OP_PLAY_OK
        /\ \A i \in 1..Len(lc.got) :
             lc.got[i].op # ExpectedReplies[i] =>
                 /\ i = Len(lc.got)
                 /\ n = i - 1
                 /\ lc.state = "failed"
                 /\ lc.sock = "closed"
                 /\ lc.play_ok1 = 0

\* after RequestAuthLogin the server answered with an opcode that is neither
\* LoginOk nor LoginFail, and the login was aborted
C14_AbortedMidway ==
    /\ login_client.state = "failed"
    /\ Len(login_client.sent) = 2
    /\ Len(login_client.got) = 3
    /\ login_client.got[3].op \notin {OP_LOGIN_OK, OP_LOGIN_FAIL}

\* the counter of a key as two 16-bit halves
CounterLo(key) == key[9] + 256 * key[10]
CounterHi(key) == key[11] + 256 * key[12]

\* new is old with the 32-bit counter advanced by n modulo 2^32
AdvancedBy(old, new, n) ==
    /\ CounterLo(new) = (CounterLo(old) + n) % 65536
    /\ CounterHi(new) =
         (CounterHi(old) + ((CounterLo(old) + n) \div 65536)) % 65536
    /\ \A i \in (1..16) \ (9..12) : new[i] = old[i]

ExpectedOpcode(state) ==
    CASE state = "KeyPacket"      -> OP_KEY_PACKET
      [] state = "CharSelectInfo" -> OP_CHAR_SELECT_INFO
      [] state = "CharCreate"     -> OP_CHAR_CREATE_OK
      [] state = "SelectChar"     -> OP_CHAR_SELECTED

\* C15: when the reply read in the KeyPacket, CharSelectInfo, CharCreate or
\* SelectChar state carries an opcode other than the expected one, the
\* session is aborted (socket closed, None returned), EnterWorld is never
\* sent and no connected client is returned.
C15_UnexpectedOpcodeIsFatal ==
    \A i \in DOMAIN game_client.got :
      LET g == game_client.got[i]
      IN  (/\ g.state \in {"KeyPacket", "CharSelectInfo", "CharCreate", "SelectChar"}
           /\ g.raw # <<>>
           /\ g.raw[1] # ExpectedOpcode(g.state)) =>
            /\ game_client.state = "closed"
            /\ game_client.sock = "closed"
            /\ game_client.result = "None"
            /\ \A j \in DOMAIN game_client.sent :
                 game_client.sent[j].body[1] # REQ_ENTER_WORLD

\* C16: ProtocolVersion goes out as it is and the KeyPacket is read as it
\* is; once a key is installed the cipher is enabled, the next packet sent
\* is AuthLogin, its bytes on the wire are the XOR transform of its body
\* under the key of the KeyPacket and the outbound counter has advanced by
\* the length of the body; the next packet read, unless empty, is the XOR
\* inverse of the bytes on the wire and the inbound counter has advanced by
\* their length.
C16_CipherOnFromInstall ==
    LET gc == game_client
        prev(s, i) == IF i = 1 THEN 0 ELSE s[i - 1]
    IN  /\ Len(gc.sent) >= 1 =>
             /\ gc.sent[1].body = ProtocolVersion
             /\ gc.sent[1].wire = ProtocolVersion
             /\ gc.sent[1].after = NoCrypt
        /\ Len(gc.got) >= 1 =>
             /\ gc.got[1].state = "KeyPacket"
             /\ gc.got[1].raw = gc.got[1].wire
        /\ gc.crypt # NoCrypt =>
             LET key == SubSeq(gc.got[1].wire, 3, 18)
                 s   == gc.sent[2]
             IN  /\ gc.crypt.enabled
                 /\ Len(gc.sent) >= 2
                 /\ s.body[1] = REQ_AUTH
                 /\ s.crypt = [in_key |-> key, out_key |-> key, enabled |-> TRUE]
                 /\ Len(s.wire) = Len(s.body)
                 /\ \A i \in 1..Len(s.body) :
                      s.wire[i] = Xor(Xor(s.body[i], KeyByte(key, i)),
                                      prev(s.wire, i))
                 /\ AdvancedBy(key, s.after.out_key, Len(s.body))
                 /\ (Len(gc.got) >= 2 /\ gc.got[2].wire # <<>>) =>
                      LET g == gc.got[2]
                      IN  /\ Len(g.raw) = Len(g.wire)
                          /\ \A i \in 1..Len(g.wire) :
                               g.raw[i] = Xor(Xor(g.wire[i], KeyByte(key, i)),
                                              prev(g.wire, i))
                          /\ AdvancedBy(key, g.after.in_key, Len(g.wire))

\* AuthLogin left encrypted and CharSelectInfo came back through the cipher
C16_FirstEncryptedExchange ==
    /\ Len(game_client.sent) >= 2
    /\ game_client.sent[2].wire # game_client.sent[2].body
    /\ Len(game_client.got) >= 2
    /\ game_client.got[2].raw # <<>>
    /\ game_client.got[2].raw[1] = OP_CHAR_SELECT_INFO
    /\ game_client.got[2].wire # game_client.got[2].raw

\* the texts handled so far that are not scan responses
OtherSaid == SelectSeq(game_client.said, LAMBDA t : ~is_geodata(t))

\* a text that begins with "GEODATA|" or "GEODATA_CHECK|" went to the
\* geodata queue and only there, any other text went nowhere else than to
\* the generic queue, which holds no more than its capacity
Routed ==
    /\ game_client.taken \o game_client.geodata_queue =
         SelectSeq(game_client.said, is_geodata)
    /\ \A i \in DOMAIN game_client.sys_messages :
         /\ ~is_geodata(game_client.sys_messages[i])
         /\ \E j \in DOMAIN OtherSaid :
              OtherSaid[j] = game_client.sys_messages[i]
    /\ Len(game_client.sys_messages) <= SysCap

\* C19: a CreatureSay text beginning with "GEODATA|" or "GEODATA_CHECK|" is
\* appended to the geodata queue and to no other; any other text goes to
\* the bounded generic queue, and when that queue is full the oldest
\* message is dropped, so that the queue always holds the newest messages.
C19_NewestRetained ==
    /\ Routed
    /\ LET n == Len(OtherSaid)
           k == IF n < SysCap THEN n ELSE SysCap
       IN  game_client.sys_messages = SubSeq(OtherSaid, n - k + 1, n)

\* h is the signed 16-bit value of the little-endian byte pair lo, hi
SignedLE16(h, lo, hi) ==
    /\ h \in -32768..32767
    /\ (h - (lo + 256 * hi)) % 65536 = 0

\* C20: after a payload of full size was decoded for row block_y, for every
\* bx of the row heights[(bx, block_y)] is the signed little-endian 16-bit
\* value at offset bx*3 and nswe[(bx, block_y)] is the byte at offset
\* bx*3+2, and every other key of both dictionaries is as it was before.
C20_RowDecoded ==
    (geo_row.exc = "" /\ geo_row.raw # <<>>) =>
      LET by  == geo_row.before.block_y
          raw == geo_row.raw
          row == {<<bx, by>> : bx \in 0..(Cols - 1)}
      IN  /\ Len(raw) = 3 * Cols
          /\ \A bx \in 0..(Cols - 1) :
               /\ <<bx, by>> \in DOMAIN geo_row.heights
               /\ <<bx, by>> \in DOMAIN geo_row.nswe
               /\ SignedLE16(geo_row.heights[<<bx, by>>],
                             raw[bx * 3 + 1], raw[bx * 3 + 2])
               /\ geo_row.nswe[<<bx, by>>] = raw[bx * 3 + 3]
          /\ DOMAIN geo_row.heights = DOMAIN geo_row.before.heights \cup row
          /\ DOMAIN geo_row.nswe = DOMAIN geo_row.before.nswe \cup row
          /\ \A c \in DOMAIN geo_row.before.heights \ row :
               geo_row.heights[c] = geo_row.before.heights[c]
          /\ \A c \in DOMAIN geo_row.before.nswe \ row :
               geo_row.nswe[c] = geo_row.before.nswe[c]

\* the second row was decoded and holds a negative height next to the
\* largest one, the first row still in place
C20_NegativeHeight ==
    /\ geo_row.exc = ""
    /\ geo_row.block_y = 2
    /\ geo_row.heights[<<0, 1>>] = -32768
    /\ geo_row.heights[<<1, 1>>] = 32767
    /\ geo_row.heights[<<0, 0>>] = -1
    /\ geo_row.nswe[<<0, 1>>] = 255

\* C21: for every byte string that parse_l2d accepts, write_l2d of the
\* parsed region gives back the same bytes.
C21_WriteParseIsIdentity ==
    (editor.step = "written" /\ editor.parsed.ok) =>
        /\ editor.written.ok
        /\ editor.written.bytes = editor.file

\* the size on disk of a block: 3 bytes for Flat, 1 + 3 per cell for
\* Complex, 1 + the sum over the cells of (1 + 3 per layer) for Multilayer
RECURSIVE StacksSize(_)
StacksSize(cell_layers) ==
    IF cell_layers = <<>> THEN 0
    ELSE 1 + 3 * Len(cell_layers[1]) + StacksSize(Tail(cell_layers))

RECURSIVE BlocksSize(_)
BlocksSize(blocks) ==
    IF blocks = <<>> THEN 0
    ELSE (CASE blocks[1].block_type = TYPE_FLAT -> 3
            [] blocks[1].block_type = TYPE_COMPLEX ->
                 1 + 3 * Len(blocks[1].cells)
            [] blocks[1].block_type = TYPE_MULTILAYER ->
                 1 + StacksSize(blocks[1].cell_layers))
         + BlocksSize(Tail(blocks))

\* C23: parse_l2d consumes exactly REGION_BLOCKS blocks and the whole input:
\* a file with bytes after the last block and a file that ends before the
\* last block is complete are rejected, and what is accepted has
\* REGION_BLOCKS blocks whose sizes add up to the length of the file.
C23_WholeInputConsumed ==
    editor.step # "file" =>
        /\ editor.kind \in {"short", "long"} => ~editor.parsed.ok
        /\ editor.parsed.ok =>
             /\ Len(editor.parsed.region.blocks) = REGION_BLOCKS
             /\ BlocksSize(editor.parsed.region.blocks) = Len(editor.file)

\* C24: on a region that parse_l2d accepted, for an in-range cell and a
\* layer index >= 0, get_layers returns at least one cell, get_cell returns
\* the cell at that layer if the stack has it and the layer-0 cell
\* otherwise, and in a Flat block the cell is (block height, 0xFF).
C24_RandomAccessNeverFaults ==
    editor.step = "queried" =>
        LET r == editor.parsed.region
            b == r.blocks[block_index(r, editor.req.cx, editor.req.cy)]
        IN  /\ editor.layers.ok
            /\ Len(editor.layers.cells) >= 1
            /\ editor.cell.ok
            /\ editor.cell.cell =
                 IF editor.req.layer < Len(editor.layers.cells)
                 THEN editor.layers.cells[editor.req.layer + 1]
                 ELSE editor.layers.cells[1]
            /\ b.block_type = TYPE_FLAT =>
                 editor.cell.cell = Cell(b.height, NSWE_ALL_L2D)


\* C22: what the editor saved parses back to the region it held in memory,
\* for every sequence of cell edits, make-walkable edits and area unblocks
\* the editor accepted: the save succeeds, and the reload equals the region.
C22_EditsSurviveSave ==
    /\ editor.step = "saved" => editor.written.ok
    /\ editor.step = "reloaded" =>
         /\ editor.parsed.ok
         /\ editor.parsed.region = editor.region

\* the region coordinates of cell ci of block bi
CellX(dims, bi, ci) == ((bi - 1) \div dims.rby) * dims.bcx + ((ci - 1) \div dims.bcy)

CellY(dims, bi, ci) == ((bi - 1) % dims.rby) * dims.bcy + ((ci - 1) % dims.bcy)

\* the entries <<block, cell, layer>> of the Complex and Multilayer blocks
Entries(region) ==
    { e \in (DOMAIN region.blocks) \X (1..(region.dims.bcx * region.dims.bcy))
              \X (1..2) :
        \/ /\ region.blocks[e[1]].block_type = TYPE_COMPLEX
           /\ e[3] = 1
        \/ /\ region.blocks[e[1]].block_type = TYPE_MULTILAYER
           /\ e[3] <= Len(region.blocks[e[1]].cell_layers[e[2]]) }

EntryAt(region, e) ==
    IF region.blocks[e[1]].block_type = TYPE_COMPLEX
    THEN region.blocks[e[1]].cells[e[2]]
    ELSE region.blocks[e[1]].cell_layers[e[2]][e[3]]

\* the entry lies in the square of the request, clamped to the region
InSquare(req, dims, e) ==
    LET x == CellX(dims, e[1], e[2])
        y == CellY(dims, e[1], e[2])
    IN  /\ req.cx - req.radius <= x /\ x <= req.cx + req.radius
        /\ req.cy - req.radius <= y /\ y <= req.cy + req.radius

Changed(e) == EntryAt(editor.before, e) # EntryAt(editor.region, e)

\* C28: an area unblock changes only the nswe of the Complex and Multilayer
\* entries inside the clamped square whose low four bits were not all set,
\* and sets them to 0xFF; heights, Flat blocks and cells outside the square
\* are unchanged; the count is the number of entries changed; with radius 0
\* only the centre cell can change.
C28_UnblockFrame ==
    editor.step = "unblocked" =>
      LET before == editor.before
          after  == editor.region
          req    == editor.req
      IN  /\ Len(after.blocks) = Len(before.blocks)
          /\ Entries(after) = Entries(before)
          /\ \A bi \in DOMAIN before.blocks :
               /\ after.blocks[bi].block_type = before.blocks[bi].block_type
               /\ before.blocks[bi].block_type = TYPE_FLAT =>
                    after.blocks[bi] = before.blocks[bi]
          /\ \A e \in Entries(before) :
               LET old == EntryAt(before, e)
                   new == EntryAt(after, e)
               IN  /\ new.height = old.height
                   /\ new.nswe =
                        IF InSquare(req, before.dims, e)
                           /\ old.nswe % 16 # 15
                        THEN 255 ELSE old.nswe
          /\ editor.count = Cardinality({e \in Entries(before) : Changed(e)})
          /\ req.radius = 0 =>
               \A e \in Entries(before) :
                 Changed(e) => /\ CellX(before.dims, e[1], e[2]) = req.cx
                               /\ CellY(before.dims, e[1], e[2]) = req.cy

\* an unblock at the edge of the region that opened one layer of a stack and
\* left the other, opened a Complex cell, and left a walkable cell alone
C28_SweepAtEdge ==
    /\ editor.step = "unblocked"
    /\ editor.req.radius > 0
    /\ editor.req.cx + editor.req.radius
          >= editor.region.dims.rbx * editor.region.dims.bcx
    /\ editor.count >= 2
    /\ \E e \in Entries(editor.before) :
         /\ editor.before.blocks[e[1]].block_type = TYPE_MULTILAYER
         /\ Changed(e)
         /\ \E f \in Entries(editor.before) :
              f[1] = e[1] /\ f[2] = e[2] /\ f[3] # e[3] /\ ~Changed(f)
    /\ \E e \in Entries(editor.before) :
         /\ InSquare(editor.req, editor.before.dims, e)
         /\ EntryAt(editor.before, e).nswe = 15
         /\ ~Changed(e)

\* the cell of the request lies outside the region
OutOfRegion(req, dims) ==
    \/ req.cx < 0 \/ req.cx >= dims.rbx * dims.bcx
    \/ req.cy < 0 \/ req.cy >= dims.rby * dims.bcy

\* C29: a cell edit whose cx or cy lies outside the region is rejected and
\* leaves the region unchanged.
C29_OutOfRangeEditRejected ==
    (editor.step = "edited" /\ OutOfRegion(editor.req, editor.region.dims)) =>
        /\ ~editor.ok
        /\ editor.region = editor.before


\* the request of the scenario: unblock(cell_x=80, cell_y=80, radius=3)
ScenarioSwept ==
    /\ editor.step = "unblocked"
    /\ editor.req.cx = 80 /\ editor.req.cy = 80 /\ editor.req.radius = 3

\* the entries that the last operation set to nswe = 0xFF
Opened == {e \in Entries(editor.before) :
             Changed(e) /\ EntryAt(editor.region, e).nswe = NSWE_ALL_L2D}

\* C27 as stated: in the region whose block (10, 10) is Complex and closed
\* and whose other blocks are Flat, unblock(80, 80, 3) changes exactly 49
\* cells to 0xFF and returns 49.
C27_FortyNineOpened ==
    ScenarioSwept =>
        /\ editor.count = 49
        /\ Cardinality(Opened) = 49
        /\ \A e \in Entries(editor.before) : Changed(e) => e \in Opened

\* C27 amended: unblock(80, 80, 3) covers cells 77..83 on both axes, of which
\* only 80..83 lie in block (10, 10); exactly these 16 cells change to 0xFF
\* and the count returned is 16.
C27_SixteenOpened ==
    ScenarioSwept =>
        /\ editor.count = 16
        /\ Cardinality(Opened) = 16
        /\ \A e \in Entries(editor.before) :
             Changed(e) <=>
               /\ CellX(ScenarioDims, e[1], e[2]) \in 80..83
               /\ CellY(ScenarioDims, e[1], e[2]) \in 80..83
        /\ \A e \in Entries(editor.before) : Changed(e) => e \in Opened
        /\ \A bi \in DOMAIN editor.before.blocks :
             editor.before.blocks[bi].block_type = TYPE_FLAT =>
               editor.region.blocks[bi] = editor.before.blocks[bi]

\* the sweep of the scenario has run and opened cells
C27_ScenarioRun == ScenarioSwept /\ editor.count > 0 /\ Opened # {}


\* C25: for all rx, ry, negative world coordinates included, and all cx, cy
\* in [0, 2048), world_to_region(region_to_world(rx, ry, cx, cy)) is
\* (rx, ry, cx, cy).
C25_RegionWorldRoundTrip ==
    editor.step = "back" => editor.back = editor.region

\* a round trip through a world point left of and above the origin, from the
\* last cell of a region
C25_NegativeWorldPoint ==
    /\ editor.step = "back"
    /\ editor.region[1] < 11 /\ editor.region[2] < 10
    /\ editor.region[3] = REGION_CELLS_X - 1
    /\ editor.world[1] < -327680 /\ editor.world[2] < -262144

\* C26 as stated: world_to_region(83000, 148000) is (22, 16, 667, 1144) and
\* region_to_world(22, 16, 667, 1144) is (83000, 148000).
C26_ExampleAsStated ==
    /\ (editor.step = "located" /\ editor.world = <<83000, 148000>>) =>
          editor.region = <<22, 16, 667, 1144>>
    /\ (editor.step = "world" /\ editor.region = <<22, 16, 667, 1144>>) =>
          editor.world = <<83000, 148000>>

\* C26 amended: world_to_region(83000, 148000) is (23, 22, 1091, 1058),
\* region_to_world(23, 22, 1091, 1058) is (82992, 148000), the corner of that
\* cell, and region_to_world(22, 16, 667, 1144) is (43440, -47232).
C26_ExampleByFormula ==
    /\ (editor.step = "located" /\ editor.world = <<83000, 148000>>) =>
          editor.region = <<23, 22, 1091, 1058>>
    /\ (editor.step = "world" /\ editor.region = <<23, 22, 1091, 1058>>) =>
          editor.world = <<82992, 148000>>
    /\ (editor.step = "world" /\ editor.region = <<22, 16, 667, 1144>>) =>
          editor.world = <<43440, -47232>>

\* the world point of the example has been converted
C26_ExampleLocated ==
    editor.step = "located" /\ editor.world = <<83000, 148000>>


\* C30: the frame LoginCrypt.encrypt hands to Blowfish has as length the
\* smallest multiple of 8 that is >= L + 4, starts with the L payload bytes,
\* holds only zero bytes between the payload and its last 4 bytes, and its
\* last 4 bytes are the XOR of all preceding little-endian u32 words.
C30_LoginFrameLayout ==
    login_client.step = "framed" =>
      LET L     == Len(login_client.payload)
          frame == login_client.frame
          n     == Len(frame)
      IN  /\ n = ((L + 4 + 7) \div 8) * 8
          /\ SubSeq(frame, 1, L) = login_client.payload
          /\ \A i \in (L + 1)..(n - 4) : frame[i] = 0
          /\ \A lane \in 0..3 :
               frame[n - 4 + lane + 1] = checksum_lane(frame, 0, n - 4, lane)


\* C31: every PENDING region has an empty assigned_worker and started_at = 0
\* and every SCANNING region has a non-empty assigned_worker; a release to
\* COMPLETE sets completed_at, a release to PENDING clears assigned_worker
\* and started_at, and a release of an unknown key changes nothing and emits
\* no event.
C31_RegionFieldsFollowStatus ==
    /\ \A k \in DOMAIN regions :
         /\ regions[k].status = PENDING =>
              regions[k].assigned_worker = NoWorker /\ regions[k].started_at = 0
         /\ regions[k].status = SCANNING =>
              regions[k].assigned_worker # NoWorker
    /\ sse.last.op = "release" =>
         LET k == sse.last.key
         IN  IF k \in DOMAIN sse.last.regions
             THEN /\ regions[k].status = sse.last.status
                  /\ sse.last.status = COMPLETE => regions[k].completed_at > 0
                  /\ sse.last.status = PENDING =>
                       /\ regions[k].assigned_worker = NoWorker
                       /\ regions[k].started_at = 0
                  /\ Len(sse.emitted) = sse.last.emitted + 1
             ELSE /\ regions = sse.last.regions
                  /\ db_regions = sse.last.db_regions
                  /\ Len(sse.emitted) = sse.last.emitted

\* a release named a key the registry did not hold, while another region
\* is PENDING again after a claim and a failed scan
C31_UnknownKeyReleased ==
    /\ sse.last.op = "release"
    /\ sse.last.key \notin DOMAIN sse.last.regions
    /\ \E j \in DOMAIN regions :
         regions[j].status = PENDING /\ regions[j].error = TIMEOUT

\* C32: add_region for a key already tracked, registered earlier or
\* rehydrated from the store, leaves that region unchanged in memory and in
\* the store: a COMPLETE or SCANNING region never becomes PENDING by it.
C32_RegisteredOnce ==
    (sse.last.op = "add" /\ sse.last.key \in DOMAIN sse.last.regions) =>
        /\ regions = sse.last.regions
        /\ db_regions = sse.last.db_regions

\* add_region named a key that is COMPLETE or SCANNING in the registry
C32_AddedAgain ==
    /\ sse.last.op = "add"
    /\ sse.last.key \in DOMAIN sse.last.regions
    /\ sse.last.regions[sse.last.key].status \in {COMPLETE, SCANNING}


\* C33 as stated: for all integer world coordinates (wx, wy),
\* region_to_world(world_to_region(wx, wy)) is (wx, wy).
C33_WorldRoundTripExact ==
    editor.step = "returned" => editor.back = editor.world

\* C33 amended: region_to_world(world_to_region(wx, wy)) is the corner of the
\* cell that holds (wx, wy), that is (wx - wx mod 16, wy - wy mod 16); it is
\* (wx, wy) exactly when wx and wy are multiples of 16.
C33_WorldRoundTripToCorner ==
    editor.step = "returned" =>
        /\ editor.back = <<editor.world[1] - (editor.world[1] % 16),
                           editor.world[2] - (editor.world[2] % 16)>>
        /\ editor.back = editor.world <=>
             (editor.world[1] % 16 = 0 /\ editor.world[2] % 16 = 0)

\* a world point left of the origin that is not on a cell corner came back
C33_OffCornerPoint ==
    /\ editor.step = "returned"
    /\ editor.world[1] < -327680
    /\ editor.world[1] % 16 # 0
    /\ editor.world[2] % 16 = 0


\* C34: the data stored for row block_y of the region being scanned comes
\* from a GEODATA response whose rx, ry and block_y fields equal those of the
\* scan_geo request sent for that row.
C34_RowFromMatchingResponse ==
    \A by \in DOMAIN geo_row.rows :
        /\ geo_row.rows[by].rx = ScannedRegion[1]
        /\ geo_row.rows[by].ry = ScannedRegion[2]
        /\ geo_row.rows[by].by = by


\* C37: every scan_cells row in the store belongs to a region key that is in
\* the regions table and in the in-memory registry, also when reset() runs
\* while a worker is scanning and that worker later records its batch.
C37_CellsBelongToTrackedRegion ==
    \A c \in DOMAIN scan_cells :
        c[1] \in DOMAIN db_regions /\ c[1] \in DOMAIN regions


\* region k is claimed by a worker of this process that is running
ClaimedByRunning(k) ==
    /\ k \in DOMAIN regions
    /\ regions[k].status = SCANNING
    /\ regions[k].assigned_worker \in Workers
    /\ pc[regions[k].assigned_worker] \notin {"new", "done"}

\* C35: after a restart that rehydrates the registry from the store, every
\* region that is not COMPLETE is eventually claimed by a running worker, a
\* region persisted as SCANNING by the previous process included.
C35_RehydratedEventuallyClaimed ==
    \A k \in Keys :
        (k \in DOMAIN regions /\ regions[k].status # COMPLETE)
            ~> ClaimedByRunning(k)

\* C36: as long as a worker keeps running and can connect, every PENDING
\* region is eventually claimed, even when the scans of another region fail
\* every time.
C36_NoRegionStarves ==
    \A k \in Keys :
        (k \in DOMAIN regions /\ regions[k].status = PENDING)
            ~> ClaimedByRunning(k)


\* C38: with the cipher enabled, every interleaving of the worker thread's
\* sends with the packet-loop thread's receives yields the ciphertexts, the
\* plaintexts and the key counters of the same calls made one after the other.
C38_InterleavingAsSequential ==
    LET seq == Sequentially(game_client.start, game_client.done)
    IN  /\ seq.rets = [n \in DOMAIN game_client.done |-> game_client.done[n].ret]
        /\ game_client.send.step = "idle"
             => game_client.crypt.out_key = seq.crypt.out_key
        /\ game_client.recv.step = "idle"
             => game_client.crypt.in_key = seq.crypt.in_key

\* both threads have finished their packets, calls of the two overlapped, and
\* both counters have moved
C38_OverlappedCallsDone ==
    /\ game_client.overlap
    /\ Len(game_client.done) = 2 * MaxThreadPackets
    /\ game_client.send.step = "idle" /\ game_client.recv.step = "idle"
    /\ game_client.crypt.out_key # game_client.start.out_key
    /\ game_client.crypt.in_key # game_client.start.in_key
    /\ game_client.crypt.in_key # game_client.crypt.out_key
    /\ game_client.done[1].op # game_client.done[2].op


\* the calls that are between setting the flag and clearing it
InBootstrapJob == {c \in Callers : sse.call[c].pc \in {"job", "returning", "raising"}}

\* C39: at most one bootstrap job runs at a time: a call that overlaps it
\* creates no account and returns zero counts, and the running flag is set
\* exactly while a job is between its start and its finally block, whether the
\* job returns or raises.
C39_OneBootstrapJob ==
    /\ Cardinality(InBootstrapJob) <= 1
    /\ sse.bootstrap_running <=> InBootstrapJob # {}
    /\ \A c \in Callers :
         /\ sse.call[c].overlapped =>
              /\ sse.call[c].ret = ZeroCounts
              /\ sse.call[c].made = 0
              /\ sse.call[c].pc = "returned"
         /\ sse.call[c].pc = "returned" /\ ~sse.call[c].overlapped =>
              /\ sse.call[c].made = sse.call[c].num
              /\ sse.call[c].ret.created + sse.call[c].ret.failed = sse.call[c].num
         /\ sse.call[c].made > 0 => ~sse.call[c].overlapped

\* one call's job raised, a call that overlapped it returned zero counts, and
\* a call made after the flag was cleared has created accounts
C39_OverlapThenRaise ==
    \E a, b, c \in Callers :
        /\ sse.call[a].pc = "raised"
        /\ sse.call[b].overlapped /\ sse.call[b].pc = "returned"
        /\ sse.call[c].pc = "job" /\ sse.call[c].created > 0
        /\ sse.bootstrap_running


\* C40: after any sequence of add_worker and remove_worker calls, add_worker
\* without a name adds exactly one worker, whose name no worker of the pool
\* had before the call.
C40_NamelessAddAddsOne ==
    (sse.last.op = "add_worker" /\ sse.last.name = NoName) =>
        /\ sse.last.before \subseteq sse.last.after
        /\ Cardinality(sse.last.after \ sse.last.before) = 1

====
